---- MODULE Spec2Model ----
(***************************************************************************)
(* Model of the converter core of analiseSped                              *)
(* (internal/core/converter/service.go).                                   *)
(*                                                                         *)
(* A Go string is modelled as a sequence of runes; a rune is a one-token   *)
(* TLA+ string: an ASCII rune is itself ("A", " ", "-"), any other rune is *)
(* named by its code point ("U+00E9").  The empty Go string is << >>.      *)
(***************************************************************************)
EXTENDS Integers, Sequences, FiniteSets, TLC

VARIABLES
    variant,      \* which operation of the Service this behaviour runs
    contas,       \* the records of the chart-of-accounts file (csv.ReadAll)
    index,        \* the account index: [map: normalized description ->
                  \* entries, order: the first-seen ordered list of the keys]
    loaded,       \* whether the accounts loader has run
    res,          \* what the last resolver call did (ghost of its locals)
    input,        \* the rows of the entries file being converted
    st,           \* the locals of the running conversion (its scanner state)
    out,          \* the records written to the output CSV
    pc            \* where the conversion stands

vars == <<variant, contas, index, loaded, res, input, st, out, pc>>

\* the variables of a conversion, untouched by a bare resolver call
procVars == <<input, st, out, pc>>

(***************************************************************************)
(* Runes and the strings / unicode package functions the code calls.       *)
(***************************************************************************)
UpperRunes == <<"A","B","C","D","E","F","G","H","I","J","K","L","M",
                "N","O","P","Q","R","S","T","U","V","W","X","Y","Z">>

LowerRunes == <<"a","b","c","d","e","f","g","h","i","j","k","l","m",
                "n","o","p","q","r","s","t","u","v","w","x","y","z">>

DigitRunes == <<"0","1","2","3","4","5","6","7","8","9">>

Range(s) == {s[i] : i \in DOMAIN s}

\* the element of a one-element set: Only({F(x) : x \in {e}}) is F(e), with
\* e evaluated once
Only(S) == CHOOSE x \in S : TRUE

\* a string literal of the source, as runes (ASCII only)
Runes(str) == [i \in 1..Len(str) |-> SubSeq(str, i, i)]

IndexIn(s, r) == CHOOSE i \in DOMAIN s : s[i] = r

IsUpperAZ(r) == r \in Range(UpperRunes)

IsLowerAZ(r) == r \in Range(LowerRunes)

IsDigit(r) == r \in Range(DigitRunes)

\* unicode.IsSpace: the ASCII white space, U+0085 and U+00A0 (Latin-1 range)
IsSpace(r) == r \in {" ", "\t", "\n", "\r", "\f", "U+000B", "U+0085", "U+00A0"}

\* unicode.ToUpper of one rune (simple case mapping of the Unicode tables):
\* U+00E9 (e acute) -> U+00C9, U+00F3 (o acute) -> U+00D3, U+03B9 (iota) and
\* U+0345 (combining ypogegrammeni) -> U+0399 (capital iota)
ToUpperRune(r) ==
    IF IsLowerAZ(r) THEN UpperRunes[IndexIn(LowerRunes, r)]
    ELSE IF r = "U+00E9" THEN "U+00C9"
    ELSE IF r = "U+00F3" THEN "U+00D3"
    ELSE IF r = "U+0345" THEN "U+0399"
    ELSE IF r = "U+03B9" THEN "U+0399"
    ELSE r

\* unicode.ToLower of one rune
ToLowerRune(r) ==
    IF IsUpperAZ(r) THEN LowerRunes[IndexIn(UpperRunes, r)]
    ELSE IF r = "U+00C9" THEN "U+00E9"
    ELSE IF r = "U+00D3" THEN "U+00F3"
    ELSE IF r = "U+0399" THEN "U+03B9"
    ELSE r

ToUpper(s) == [i \in DOMAIN s |-> ToUpperRune(s[i])]

ToLower(s) == [i \in DOMAIN s |-> ToLowerRune(s[i])]

RECURSIVE TrimLeft(_)
TrimLeft(s) ==
    IF s # << >> /\ IsSpace(Head(s)) THEN TrimLeft(Tail(s)) ELSE s

RECURSIVE TrimRight(_)
TrimRight(s) ==
    IF s # << >> /\ IsSpace(s[Len(s)])
    THEN TrimRight(SubSeq(s, 1, Len(s) - 1))
    ELSE s

TrimSpace(s) == TrimRight(TrimLeft(s))

HasPrefix(s, p) == Len(s) >= Len(p) /\ SubSeq(s, 1, Len(p)) = p

HasSuffix(s, p) == Len(s) >= Len(p) /\ SubSeq(s, Len(s) - Len(p) + 1, Len(s)) = p

TrimSuffix(s, p) == IF HasSuffix(s, p) THEN SubSeq(s, 1, Len(s) - Len(p)) ELSE s

TrimPrefix(s, p) == IF HasPrefix(s, p) THEN SubSeq(s, Len(p) + 1, Len(s)) ELSE s

Contains(s, sub) ==
    \E i \in 0..(Len(s) - Len(sub)) : SubSeq(s, i + 1, i + Len(sub)) = sub

RECURSIVE SeqSum(_)
SeqSum(s) == IF s = << >> THEN 0 ELSE Head(s) + SeqSum(Tail(s))

RECURSIVE Flatten(_)
Flatten(ss) == IF ss = << >> THEN << >> ELSE Head(ss) \o Flatten(Tail(ss))

RECURSIVE Join(_, _)
Join(ss, sep) ==
    IF ss = << >> THEN << >>
    ELSE IF Len(ss) = 1 THEN ss[1]
    ELSE ss[1] \o sep \o Join(Tail(ss), sep)

\* strings.ReplaceAll for a one-rune pattern
ReplaceRune(s, old, new) == Flatten([i \in DOMAIN s |-> IF s[i] = old THEN new ELSE <<s[i]>>])

(***************************************************************************)
(* normalizeText                                                           *)
(***************************************************************************)
\* norm.NFD of one rune: canonical decomposition
NFDRune(r) ==
    IF r = "U+00E9" THEN <<"e", "U+0301">>
    ELSE IF r = "U+00C9" THEN <<"E", "U+0301">>
    ELSE IF r = "U+00F3" THEN <<"o", "U+0301">>
    ELSE IF r = "U+00D3" THEN <<"O", "U+0301">>
    ELSE IF r = "U+00CA" THEN <<"E", "U+0302">>
    ELSE <<r>>

\* unicode.Is(unicode.Mn, r): nonspacing marks
IsMn(r) == r \in {"U+0301", "U+0302", "U+0345"}

NFD(s) == Flatten([i \in DOMAIN s |-> NFDRune(s[i])])

RemoveMn(s) == SelectSeq(s, LAMBDA r : ~IsMn(r))

\* the class [A-Z0-9 ] of nonAlphanumericRegex
IsAZ09Space(r) == IsUpperAZ(r) \/ IsDigit(r) \/ r = " "

\* the class \s of whitespaceRegex (RE2: [\t\n\f\r ])
IsReSpace(r) == r \in {" ", "\t", "\n", "\r", "\f"}

RECURSIVE DropWhileNotAZ09(_)
DropWhileNotAZ09(s) ==
    IF s # << >> /\ ~IsAZ09Space(Head(s)) THEN DropWhileNotAZ09(Tail(s)) ELSE s

\* nonAlphanumericRegex.ReplaceAllString(s, " "): every maximal run of
\* runes outside [A-Z0-9 ] becomes one space
RECURSIVE ReplaceNonAlphanumeric(_)
ReplaceNonAlphanumeric(s) ==
    IF s = << >> THEN << >>
    ELSE IF IsAZ09Space(Head(s))
         THEN <<Head(s)>> \o ReplaceNonAlphanumeric(Tail(s))
         ELSE <<" ">> \o ReplaceNonAlphanumeric(DropWhileNotAZ09(Tail(s)))

RECURSIVE DropWhileReSpace(_)
DropWhileReSpace(s) ==
    IF s # << >> /\ IsReSpace(Head(s)) THEN DropWhileReSpace(Tail(s)) ELSE s

\* every \s rune becomes a space of its own
CollapseWhitespaceEach(s) == [i \in DOMAIN s |-> IF IsReSpace(s[i]) THEN " " ELSE s[i]]

\* whitespaceRegex.ReplaceAllString(s, " "): every run of \s becomes one space
RECURSIVE CollapseWhitespace(_)
CollapseWhitespace(s) ==
    IF s = << >> THEN << >>
    ELSE IF IsReSpace(Head(s))
         THEN <<" ">> \o CollapseWhitespace(DropWhileReSpace(Tail(s)))
         ELSE <<Head(s)>> \o CollapseWhitespace(Tail(s))

normalizeText(str) ==
    TrimSpace(CollapseWhitespace(ReplaceNonAlphanumeric(ToUpper(RemoveMn(NFD(str))))))

(***************************************************************************)
(* The chart-of-accounts index and its loaders.                            *)
(***************************************************************************)
Sentinel == <<"9","9","9","9","9","9">>

Dot == <<".">>

Comma == <<",">>

\* strconv.ParseFloat(s, 64) succeeds.  Modelled for the decimal syntax
\* [+-]digits[.digits]; exponents, hex floats, "inf" and "nan" are never
\* part of the inputs used here.
ParseFloatOK(s) ==
    LET body == IF s # << >> /\ s[1] \in {"+", "-"} THEN Tail(s) ELSE s
    IN  /\ \A i \in DOMAIN body : IsDigit(body[i]) \/ body[i] = "."
        /\ Cardinality({i \in DOMAIN body : body[i] = "."}) <= 1
        /\ \E i \in DOMAIN body : IsDigit(body[i])

\* the records of a file that a loader keeps, as <<key, entry>> pairs in
\* file order
KeptEntries(eachKept) == Flatten(eachKept)

\* contasEntries[key] = append(contasEntries[key], entry), over the file
MapOfEntries(kept) ==
    [k \in {kept[i].key : i \in DOMAIN kept} |->
        LET mine == SelectSeq(kept, LAMBDA ke : ke.key = k)
        IN  [i \in DOMAIN mine |-> mine[i].entry]]

\* if !seen[key] { seen[key] = true; order = append(order, key) }
RECURSIVE OrderOfEntries(_)
OrderOfEntries(kept) ==
    IF kept = << >> THEN << >>
    ELSE LET before == OrderOfEntries(SubSeq(kept, 1, Len(kept) - 1))
             k == kept[Len(kept)].key
         IN  IF k \in Range(before) THEN before ELSE Append(before, k)

\* loop body of loadContasSicredi (and, line for line, loadContasReceitasAcisa)
SicrediEntryOf(record) ==
    IF Len(record) < 3 THEN << >>
    ELSE LET code == TrimSpace(record[1])
             classif == TrimSpace(record[2])
             desc == TrimSpace(record[3])
             key == normalizeText(desc)
         IN  IF key = << >> THEN << >>
             ELSE <<[key |-> key,
                     entry |-> [Code |-> code, Classif |-> classif, Desc |-> desc]]>>

\* loop body of lerPlanoContasAtolini
AtoliniEntryOf(rec) ==
    IF Len(rec) < 3 THEN << >>
    ELSE LET rawID == TrimSpace(rec[1])
             classif == TrimSpace(rec[2])
             desc == TrimSpace(rec[3])
             idForParse == ReplaceRune(ReplaceRune(rawID, ".", << >>), ",", Dot)
             key == normalizeText(desc)
         IN  IF desc = << >> \/ rawID = << >> THEN << >>
             ELSE IF idForParse = << >> THEN << >>
             ELSE IF ~ParseFloatOK(idForParse) THEN << >>
             ELSE IF key = << >> THEN << >>
             ELSE <<[key |-> key,
                     entry |-> [Code |-> TrimSuffix(rawID, <<".", "0">>),
                                Classif |-> classif, Desc |-> desc]]>>

\* loop body of lerContasRecebimentos
RecebimentosEntryOf(rec) ==
    IF Len(rec) < 3 THEN << >>
    ELSE LET code == TrimSpace(rec[1])
             classif == TrimSpace(rec[2])
             desc == TrimSpace(rec[3])
             descNorm == normalizeText(desc)
         IN  IF code = << >> \/ desc = << >> THEN << >>
             ELSE IF descNorm = << >> THEN << >>
             ELSE <<[key |-> descNorm,
                     entry |-> [Code |-> code, Classif |-> classif, Desc |-> desc]]>>

Perms(n) == {f \in [1..n -> 1..n] : \A i, j \in 1..n : i # j => f[i] # f[j]}

ApplyPerm(s, f) == [i \in 1..Len(s) |-> s[f[i]]]

\* less of every sort in the resolvers: the longer classification first
IsSortedByClassif(s) == \A i, j \in DOMAIN s : i < j => ~(Len(s[j].Classif) > Len(s[i].Classif))

\* mutant: the list is left as it is
SortSliceStableOff(s) == s

\* sort.SliceStable(list, longer classification first): equal elements keep
\* their order
SortSliceStable(s) ==
    LET f == CHOOSE g \in Perms(Len(s)) :
                 /\ IsSortedByClassif(ApplyPerm(s, g))
                 /\ \A i, j \in 1..Len(s) :
                        (i < j /\ Len(s[g[i]].Classif) = Len(s[g[j]].Classif)) => g[i] < g[j]
    IN  ApplyPerm(s, f)

\* sort.Slice(list, longer classification first): "The sort is not guaranteed
\* to be stable", so every sorted arrangement is a possible outcome
SortSliceOutcomes(s) ==
    {t \in {ApplyPerm(s, g) : g \in Perms(Len(s))} : IsSortedByClassif(t)}

loadContasSicredi(file) ==
    LET kept == KeptEntries([i \in DOMAIN file |-> SicrediEntryOf(file[i])])
    IN  [map |-> MapOfEntries(kept), order |-> OrderOfEntries(kept)]

loadContasReceitasAcisa(file) ==
    LET kept == KeptEntries([i \in DOMAIN file |-> SicrediEntryOf(file[i])])
    IN  [map |-> MapOfEntries(kept), order |-> OrderOfEntries(kept)]

\* ends with the stable sort of every list by classification length
lerPlanoContasAtolini(file) ==
    LET kept == KeptEntries([i \in DOMAIN file |-> AtoliniEntryOf(file[i])])
        byDesc == MapOfEntries(kept)
    IN  [map |-> [k \in DOMAIN byDesc |-> SortSliceStable(byDesc[k])],
         order |-> OrderOfEntries(kept)]

lerContasRecebimentos(file) ==
    LET kept == KeptEntries([i \in DOMAIN file |-> RecebimentosEntryOf(file[i])])
    IN  [map |-> MapOfEntries(kept), order |-> OrderOfEntries(kept)]

(***************************************************************************)
(* The account resolvers.  A resolver is modelled by the set of outcomes   *)
(* a call can have: closestmatch's choice, the order among equal elements  *)
(* of sort.Slice and the iteration order of a Go map are not fixed by the  *)
(* code.  An outcome records the returned code, the stage that returned,   *)
(* the matched key and entry, the candidate keys given to closestmatch     *)
(* (fuzzy: whether it was consulted) and the index as the call leaves it.  *)
(***************************************************************************)
Outcome(code, stage, key, chosen, cands, fuzzy, map) ==
    [code |-> code, stage |-> stage, key |-> key, chosen |-> chosen,
     cands |-> cands, fuzzy |-> fuzzy, map |-> map]

\* mutant: the prefix may stand anywhere in the classification
InPrefixesAnywhere(entry, prefixes) ==
    \E i \in DOMAIN prefixes : Contains(entry.Classif, prefixes[i])

\* for _, p := range prefixes { if strings.HasPrefix(e.Classif, p) {...} }
InPrefixes(entry, prefixes) ==
    \E i \in DOMAIN prefixes : HasPrefix(entry.Classif, prefixes[i])

\* mutant: the filter keeps every entry
FilterByPrefixesOff(entries, prefixes) == entries

FilterByPrefixes(entries, prefixes) ==
    SelectSeq(entries, LAMBDA e : InPrefixes(e, prefixes))

\* closestmatch.New(candidateKeys, sizes).Closest(word): the library returns
\* one of the keys it was built from, or "" when it ranks none
ClosestOutcomes(candidateKeys, word) == {<< >>} \cup Range(candidateKeys)

\* the orders in which "for k := range aMap" can visit the keys
MapRangeOrders(keys) ==
    {f \in [1..Cardinality(keys) -> keys] :
        \A i, j \in 1..Cardinality(keys) : i # j => f[i] # f[j]}

\* the filtered view built by matchContaSicredi / matchContaReceitas
FilteredEntries(contasEntries, classPrefixes) ==
    LET ks == {k \in DOMAIN contasEntries :
                  FilterByPrefixes(contasEntries[k], classPrefixes) # << >>}
    IN  [k \in ks |-> FilterByPrefixes(contasEntries[k], classPrefixes)]

matchConta(descricao, contasEntries, allKeys, classPrefixes) ==
    LET key == normalizeText(descricao)
        filtered == Len(classPrefixes) > 0
        searchEntries == IF filtered THEN FilteredEntries(contasEntries, classPrefixes)
                         ELSE contasEntries
        searchKeysOutcomes == IF filtered THEN MapRangeOrders(DOMAIN searchEntries)
                              ELSE {allKeys}
        exata == IF filtered THEN "exata_filtered" ELSE "exata_all"
        fuzzy == IF filtered THEN "fuzzy_filtered" ELSE "fuzzy_all"
        \* sort.Slice sorts the map's own slice when no filter copied it
        After(k, sorted) == IF filtered THEN contasEntries
                            ELSE [contasEntries EXCEPT ![k] = sorted]
        Picked(k, stage, cands, isFuzzy) ==
            {Outcome(t[1].Code, stage, k, <<t[1]>>, cands, isFuzzy, After(k, t)) :
                t \in SortSliceOutcomes(searchEntries[k])}
        NotFound(cands, isFuzzy) ==
            {Outcome(Sentinel, "nao_encontrada", << >>, << >>, cands, isFuzzy, contasEntries)}
        Fuzzy(searchKeys) ==
            IF Len(searchKeys) = 0 THEN NotFound(searchKeys, FALSE)
            ELSE UNION {IF match # << >> /\ match \in DOMAIN searchEntries
                           /\ Len(searchEntries[match]) > 0
                        THEN Picked(match, fuzzy, searchKeys, TRUE)
                        ELSE NotFound(searchKeys, TRUE) :
                        match \in ClosestOutcomes(searchKeys, key)}
    IN  IF key = << >>
        THEN {Outcome(Sentinel, "nao_aplicavel", << >>, << >>, << >>, FALSE, contasEntries)}
        ELSE IF key \in DOMAIN searchEntries /\ Len(searchEntries[key]) > 0
        THEN Picked(key, exata, << >>, FALSE)
        ELSE UNION {Fuzzy(searchKeys) : searchKeys \in searchKeysOutcomes}

\* an unresolved description gives the empty code
matchContaNoSentinel(descricao, contasEntries, allKeys, classPrefixes) ==
    {[o EXCEPT !.code = IF o.stage \in {"nao_encontrada", "nao_aplicavel"}
                        THEN << >> ELSE @] :
        o \in matchConta(descricao, contasEntries, allKeys, classPrefixes)}

matchContaSicredi(descricao, contasEntries, allKeys, classPrefixes) ==
    matchConta(descricao, contasEntries, allKeys, classPrefixes)

matchContaReceitas(descricao, contasEntries, allKeys, classPrefixes) ==
    matchConta(descricao, contasEntries, allKeys, classPrefixes)

\* pickBest of buscarContaAtolini: ok, the best entry, and the slice it was
\* given as the call leaves it (sorted in place when no filter copied it)
pickBest(entries, prefixes) ==
    LET filtered == FilterByPrefixes(entries, prefixes)
        candidates == IF Len(prefixes) > 0 THEN filtered ELSE entries
        sorted == SortSliceStable(candidates)
    IN  IF Len(candidates) = 0
        THEN {[ok |-> FALSE, best |-> << >>, list |-> entries]}
        ELSE {[ok |-> TRUE, best |-> <<sorted[1]>>,
               list |-> IF Len(prefixes) > 0 THEN entries ELSE sorted]}

\* pickBestEntry of findContaCodigoByDescricao: as pickBest, with sort.Slice
pickBestEntry(entries, prefixes) ==
    LET filtered == FilterByPrefixes(entries, prefixes)
        candidates == IF Len(prefixes) > 0 THEN filtered ELSE entries
    IN  IF Len(candidates) = 0
        THEN {[ok |-> FALSE, best |-> << >>, list |-> entries]}
        ELSE {[ok |-> TRUE, best |-> <<sorted[1]>>,
               list |-> IF Len(prefixes) > 0 THEN entries ELSE sorted] :
               sorted \in SortSliceOutcomes(candidates)}

\* the keys of descricaoIndex, in order, with an entry inside the prefixes
FilteredKeys(contasMap, descricaoIndex, classPrefixes) ==
    SelectSeq(descricaoIndex,
              LAMBDA k : FilterByPrefixes(contasMap[k], classPrefixes) # << >>)

\* mutant: a key with a single entry is not found
HasKeyOffByOne(contasMap, k) == k \in DOMAIN contasMap /\ Len(contasMap[k]) > 1

HasKey(contasMap, k) == k \in DOMAIN contasMap /\ Len(contasMap[k]) > 0

buscarContaAtolini(texto, contasMap, descricaoIndex, classPrefixes) ==
    LET t == TrimSpace(texto)
        descNorm == normalizeText(t)
        Hit(k, stage, cands, isFuzzy) ==
            {Outcome(TrimSpace(p.best[1].Code), stage, k, p.best, cands, isFuzzy,
                     [contasMap EXCEPT ![k] = p.list]) :
                p \in {q \in pickBest(contasMap[k], classPrefixes) : q.ok}}
        Fallback(stage, cands, isFuzzy) ==
            {Outcome(Sentinel, stage, << >>, << >>, cands, isFuzzy, contasMap)}
        exact == IF HasKey(contasMap, descNorm) THEN Hit(descNorm, "exata", << >>, FALSE)
                 ELSE {}
        candidateKeys == IF Len(classPrefixes) > 0
                         THEN FilteredKeys(contasMap, descricaoIndex, classPrefixes)
                         ELSE descricaoIndex
        FuzzyOn(match) ==
            IF match # << >> /\ HasKey(contasMap, match)
               /\ Hit(match, "fuzzy", candidateKeys, TRUE) # {}
            THEN Hit(match, "fuzzy", candidateKeys, TRUE)
            ELSE Fallback("nao_encontrada", candidateKeys, TRUE)
    IN  IF t = << >> THEN Fallback("vazio", << >>, FALSE)
        ELSE IF exact # {} THEN exact
        ELSE IF Len(classPrefixes) > 0 /\ Len(candidateKeys) = 0
        THEN Fallback("fora_do_filtro", << >>, FALSE)
        ELSE IF Len(candidateKeys) = 0 THEN Fallback("nao_encontrada", << >>, FALSE)
        ELSE UNION {FuzzyOn(match) : match \in ClosestOutcomes(candidateKeys, descNorm)}

RECURSIVE DropWhileDigit(_)
DropWhileDigit(s) ==
    IF s # << >> /\ IsDigit(Head(s)) THEN DropWhileDigit(Tail(s)) ELSE s

\* "." of a regexp matches every rune but a line feed
DotStarToEnd(s) == "\n" \notin Range(s)

\* the regexps ^\s*\d+\s*[-:]\s*(.*)$ and then ^\s*\d+\s+(.*)$
stripLeadingNumberPrefix(s) ==
    LET a == DropWhileReSpace(s)
        b == DropWhileDigit(a)
        c == DropWhileReSpace(b)
        rest1 == IF c = << >> THEN << >> ELSE DropWhileReSpace(Tail(c))
        m1 == Len(b) < Len(a) /\ c # << >> /\ c[1] \in {"-", ":"} /\ DotStarToEnd(rest1)
        m2 == Len(b) < Len(a) /\ Len(c) < Len(b) /\ DotStarToEnd(c)
    IN  IF s = << >> THEN s
        ELSE IF m1 THEN TrimSpace(rest1)
        ELSE IF m2 THEN TrimSpace(c)
        ELSE s

findContaCodigoByDescricao(descricao, descricaoIndex, contasMap, classPrefixes) ==
    LET descNorm == normalizeText(descricao)
        alt == stripLeadingNumberPrefix(descNorm)
        Hit(k, stage, cands, isFuzzy) ==
            {Outcome(TrimSpace(p.best[1].Code), stage, k, p.best, cands, isFuzzy,
                     [contasMap EXCEPT ![k] = p.list]) :
                p \in {q \in pickBestEntry(contasMap[k], classPrefixes) : q.ok}}
        Fallback(stage, cands, isFuzzy) ==
            {Outcome(Sentinel, stage, << >>, << >>, cands, isFuzzy, contasMap)}
        exact == IF HasKey(contasMap, descNorm) THEN Hit(descNorm, "exata", << >>, FALSE)
                 ELSE {}
        exactAlt == IF alt # descNorm /\ HasKey(contasMap, alt)
                    THEN Hit(alt, "exata_alt", << >>, FALSE)
                    ELSE {}
        candidateKeys == IF Len(classPrefixes) > 0
                         THEN FilteredKeys(contasMap, descricaoIndex, classPrefixes)
                         ELSE descricaoIndex
        Matched(match, stage) ==
            IF match # << >> /\ HasKey(contasMap, match)
            THEN Hit(match, stage, candidateKeys, TRUE)
            ELSE {}
        FuzzyAlt ==
            IF alt # descNorm
            THEN UNION {IF Matched(match2, "fuzzy_alt") # {}
                        THEN Matched(match2, "fuzzy_alt")
                        ELSE Fallback("nao_encontrada", candidateKeys, TRUE) :
                        match2 \in ClosestOutcomes(candidateKeys, alt)}
            ELSE Fallback("nao_encontrada", candidateKeys, TRUE)
        FuzzyOn(match) ==
            IF Matched(match, "fuzzy") # {} THEN Matched(match, "fuzzy") ELSE FuzzyAlt
    IN  IF TrimSpace(descricao) = << >> THEN Fallback("vazio", << >>, FALSE)
        ELSE IF exact # {} THEN exact
        ELSE IF exactAlt # {} THEN exactAlt
        ELSE IF Len(classPrefixes) > 0 /\ Len(candidateKeys) = 0
        THEN Fallback("fora_do_filtro", << >>, FALSE)
        ELSE IF Len(candidateKeys) = 0 THEN Fallback("nao_encontrada", << >>, FALSE)
        ELSE UNION {FuzzyOn(match) : match \in ClosestOutcomes(candidateKeys, descNorm)}

(***************************************************************************)
(* Inputs of the resolver behaviours.                                      *)
(***************************************************************************)
\* most records of an accounts file
MaxContas == 3

\* records of an accounts file: code; classification; description (the last
\* one is a title line over an account's name)
ContasPool ==
    { << <<"1","1">>, <<"1",".","2">>, <<"A","B">> >>,
      << <<"2","1">>, <<"2",".","1">>, <<"a","b">> >>,
      << <<"2","2">>, <<"2",".","1",".","1">>, <<"A","B">> >>,
      << <<"3","1">>, <<"1",".","2">>, <<"C","-","D">> >>,
      << <<"C","O","D">>, <<"C","L">>, <<"A","B">> >> }

\* the files: up to MaxContas different records of the pool, in any order
ContasFiles ==
    UNION {{f \in [1..n -> ContasPool] : \A i, j \in 1..n : i # j => f[i] # f[j]} :
              n \in 1..MaxContas}

\* free texts to resolve
TextPool ==
    { <<"A","B">>, <<" ","a","b"," ">>, <<"C","-","D">>, <<"A","X">>,
      <<"7"," ","A","B">>, <<"-">>, <<" ">> }

\* classification prefix lists (the empty list: no filter)
PrefixPool ==
    { << >>, << <<"1">> >>, << <<"2">> >>, << <<"2",".","1",".","1">> >>,
      << <<"3">> >>, << <<"1">>, <<"2">> >> }

Resolvers == {"sicredi", "receitas", "atolini", "recebimentos"}

NoRes ==
    [called |-> FALSE, text |-> << >>, prefixes |-> << >>, code |-> << >>,
     stage |-> "", key |-> << >>, chosen |-> << >>, cands |-> << >>, fuzzy |-> FALSE]

\* the loader each operation uses
LoaderOf(v, file) ==
    CASE v = "sicredi" -> loadContasSicredi(file)
      [] v = "receitas" -> loadContasReceitasAcisa(file)
      [] v = "atolini" -> lerPlanoContasAtolini(file)
      [] v = "recebimentos" -> lerContasRecebimentos(file)

InitResolve ==
    /\ variant \in Resolvers
    /\ contas \in ContasFiles
    /\ index = [map |-> << >>, order |-> << >>]
    /\ loaded = FALSE
    /\ res = NoRes
    /\ input = << >>
    /\ st = << >>
    /\ out = << >>
    /\ pc = "resolver"

LoadContas ==
    /\ ~loaded
    /\ index' = LoaderOf(variant, contas)
    /\ loaded' = TRUE
    /\ UNCHANGED <<variant, contas, res, procVars>>

\* one call of a resolver: res records it, the index is as the call leaves it
Resolved(outcomes, text, prefixes) ==
    \E o \in outcomes :
        /\ res' = [called |-> TRUE, text |-> text, prefixes |-> prefixes,
                   code |-> o.code, stage |-> o.stage, key |-> o.key,
                   chosen |-> o.chosen, cands |-> o.cands, fuzzy |-> o.fuzzy]
        /\ index' = [index EXCEPT !.map = o.map]

CallMatchContaSicredi ==
    /\ loaded /\ ~res.called /\ variant = "sicredi"
    /\ \E t \in TextPool, P \in PrefixPool :
           Resolved(matchContaSicredi(t, index.map, index.order, P), t, P)
    /\ UNCHANGED <<variant, contas, loaded, procVars>>

CallMatchContaReceitas ==
    /\ loaded /\ ~res.called /\ variant = "receitas"
    /\ \E t \in TextPool, P \in PrefixPool :
           Resolved(matchContaReceitas(t, index.map, index.order, P), t, P)
    /\ UNCHANGED <<variant, contas, loaded, procVars>>

CallBuscarContaAtolini ==
    /\ loaded /\ ~res.called /\ variant = "atolini"
    /\ \E t \in TextPool, P \in PrefixPool :
           Resolved(buscarContaAtolini(t, index.map, index.order, P), t, P)
    /\ UNCHANGED <<variant, contas, loaded, procVars>>

CallFindContaCodigoByDescricao ==
    /\ loaded /\ ~res.called /\ variant = "recebimentos"
    /\ \E t \in TextPool, P \in PrefixPool :
           Resolved(findContaCodigoByDescricao(t, index.order, index.map, P), t, P)
    /\ UNCHANGED <<variant, contas, loaded, procVars>>

\* the call returns: its locals are gone, the index stays as it left it
ReturnFromResolver ==
    /\ res.called
    /\ res' = NoRes
    /\ UNCHANGED <<variant, contas, index, loaded, procVars>>

NextResolve ==
    \/ LoadContas
    \/ ReturnFromResolver
    \/ CallMatchContaSicredi
    \/ CallMatchContaReceitas
    \/ CallBuscarContaAtolini
    \/ CallFindContaCodigoByDescricao

SpecResolve == InitResolve /\ [][NextResolve]_vars

(***************************************************************************)
(* Properties of account resolution (SpecResolve).                         *)
(***************************************************************************)
\* the classification of e starts with one of the prefixes P
ClassifInScope(e, P) ==
    \E i \in DOMAIN P :
        /\ Len(e.Classif) >= Len(P[i])
        /\ \A n \in 1..Len(P[i]) : e.Classif[n] = P[i][n]

IndexEntries == UNION {Range(index.map[k]) : k \in DOMAIN index.map}

ExactStages == {"exata", "exata_all", "exata_filtered"}

\* the entries the loader of this behaviour keeps under key k, in the order
\* of the accounts file
FileEntries(k) ==
    LET kept == CASE variant \in {"sicredi", "receitas"} -> KeptEntries([i \in DOMAIN contas |-> SicrediEntryOf(contas[i])])
                  [] variant = "atolini" -> KeptEntries([i \in DOMAIN contas |-> AtoliniEntryOf(contas[i])])
                  [] variant = "recebimentos" -> KeptEntries([i \in DOMAIN contas |-> RecebimentosEntryOf(contas[i])])
        mine == SelectSeq(kept, LAMBDA ke : ke.key = k)
    IN  [i \in DOMAIN mine |-> mine[i].entry]

\* the candidate entries of key k: all of them without a filter, the ones
\* inside the prefixes otherwise
CandidatesOf(k, P) ==
    IF P = << >> THEN FileEntries(k)
    ELSE SelectSeq(FileEntries(k), LAMBDA e : ClassifInScope(e, P))

IsLongest(e, c) == \A i \in DOMAIN c : Len(c[i].Classif) <= Len(e.Classif)

FirstLongest(c) == c[CHOOSE i \in DOMAIN c :
                        /\ IsLongest(c[i], c)
                        /\ \A j \in 1..(i - 1) : ~IsLongest(c[j], c)]

\* C1: with a non-empty prefix list P every resolver returns the sentinel
\* "999999" or the code of an index entry whose classification starts with a
\* prefix of P; when no entry of the index is inside P it returns the sentinel.
C1_ScopeSafety ==
    (res.called /\ res.prefixes # << >>) =>
        /\ \/ res.code = Sentinel
           \/ \E e \in IndexEntries :
                  ClassifInScope(e, res.prefixes) /\ e.Code = res.code
        /\ (\A e \in IndexEntries : ~ClassifInScope(e, res.prefixes))
               => res.code = Sentinel

\* a fuzzy match inside the prefixes while the index holds entries outside
C1_Witness ==
    /\ res.called /\ res.prefixes # << >> /\ res.fuzzy /\ res.code # Sentinel
    /\ \E e \in IndexEntries : ~ClassifInScope(e, res.prefixes)

\* C2: when the normalized text is a key with entries in different scopes,
\* resolving with the single prefix that selects exactly one of them returns
\* that entry's code, wherever its row stands in the accounts file.
C2_PrefixSelectsEntry ==
    (res.called /\ Len(res.prefixes) = 1 /\ normalizeText(res.text) \in DOMAIN index.map) =>
        LET inScope == {e \in Range(index.map[normalizeText(res.text)]) :
                           ClassifInScope(e, res.prefixes)}
        IN  Cardinality(inScope) = 1 => \A e \in inScope : res.code = e.Code

\* the selected entry's row comes after a row of the same description that
\* is outside the prefix
C2_Witness ==
    /\ res.called /\ Len(res.prefixes) = 1 /\ res.stage \in ExactStages
    /\ \E i, j \in DOMAIN contas :
           /\ i < j
           /\ normalizeText(contas[i][3]) = res.key
           /\ normalizeText(contas[j][3]) = res.key
           /\ contas[j][1] = res.code
           /\ ~ClassifInScope([Classif |-> contas[i][2]], res.prefixes)
           /\ ClassifInScope([Classif |-> contas[j][2]], res.prefixes)

TextIsKeyInScope ==
    /\ normalizeText(res.text) \in DOMAIN index.map
    /\ \/ res.prefixes = << >>
       \/ \E e \in Range(index.map[normalizeText(res.text)]) :
              ClassifInScope(e, res.prefixes)

\* C4 (as amended): for a free text whose normalized form is a key of the
\* index that has an entry inside the prefix list (any key when the list is
\* empty), resolution returns from the exact stage and never reaches the
\* fuzzy stage.
C4_ExactBeatsFuzzy ==
    (res.called /\ TextIsKeyInScope) =>
        /\ ~res.fuzzy
        /\ res.stage \in ExactStages
        /\ res.key = normalizeText(res.text)

\* an exact match under a filter that leaves other keys to a fuzzy search
C4_Witness ==
    /\ res.called /\ TextIsKeyInScope /\ res.prefixes # << >>
    /\ res.stage \in ExactStages
    /\ Cardinality(DOMAIN index.map) > 1

\* C4 as claimed: for a free text whose normalized form is a key of the
\* index, with any prefix list, resolution never reaches the fuzzy stage.
C4_ExactForEveryPrefixList ==
    (res.called /\ normalizeText(res.text) \in DOMAIN index.map) =>
        ~res.fuzzy /\ res.stage \in ExactStages

(***************************************************************************)
(* Numbers: parseBRLNumber, mathRound, formatTwoDecimalsComma.             *)
(* A float64 amount is modelled by the integer number of cents it stands   *)
(* for; mathRound leaves every amount on a whole number of cents and the   *)
(* amounts of the model are far below 2^53 cents, where sums of such       *)
(* float64 values print, with two decimals, as the exact sum of cents.     *)
(***************************************************************************)
RECURSIVE Atoi(_)
Atoi(s) == IF s = << >> THEN 0
           ELSE Atoi(SubSeq(s, 1, Len(s) - 1)) * 10 + (IndexIn(DigitRunes, s[Len(s)]) - 1)

RECURSIVE Pow10(_)
Pow10(n) == IF n = 0 THEN 1 ELSE 10 * Pow10(n - 1)

RECURSIVE Itoa(_)
Itoa(n) == IF n < 10 THEN <<DigitRunes[n + 1]>>
           ELSE Itoa(n \div 10) \o <<DigitRunes[(n % 10) + 1]>>

AllDigits(s) == \A i \in DOMAIN s : IsDigit(s[i])

\* strings.ReplaceAll(s, old, ""), old not empty
RECURSIVE RemoveAll(_, _)
RemoveAll(s, old) ==
    IF s = << >> THEN << >>
    ELSE IF HasPrefix(s, old) THEN RemoveAll(SubSeq(s, Len(old) + 1, Len(s)), old)
    ELSE <<Head(s)>> \o RemoveAll(Tail(s), old)

\* strings.LastIndex(s, r) for a one-rune pattern, 0-based, -1 when absent
LastIndex(s, r) ==
    IF \E i \in DOMAIN s : s[i] = r
    THEN (CHOOSE i \in DOMAIN s : s[i] = r /\ \A j \in (i + 1)..Len(s) : s[j] # r) - 1
    ELSE -1

Count(s, r) == Cardinality({i \in DOMAIN s : s[i] = r})

\* mathRound(val, 2) of the decimal number digits / 10^decimals, in cents:
\* float64(int64(val*100 + 0.5)) / 100 (val*100 - 0.5 below zero).  The value
\* is taken as the exact decimal; a float64 that lies just under a half
\* cent (1.005) is rounded down by the code.
mathRound(digits, decimals, neg) ==
    LET n == Atoi(digits)
        abs == (2 * 100 * n + Pow10(decimals)) \div (2 * Pow10(decimals))
    IN  IF neg THEN 0 - abs ELSE abs

parseBRLNumber(val) ==
    LET Number(filtered, neg) ==
            LET point == IF Count(filtered, ".") = 0 THEN Len(filtered)
                         ELSE LastIndex(filtered, ".") + 1
                digits == SelectSeq(filtered, IsDigit)
            IN  IF filtered = << >> THEN [val |-> 0, err |-> FALSE]
                ELSE IF ~ParseFloatOK(filtered) THEN [val |-> 0, err |-> TRUE]
                ELSE [val |-> mathRound(digits, Len(filtered) - point, neg),
                      err |-> FALSE]
        Unsigned(s4, neg) ==
            LET lastDot == LastIndex(s4, ".")
                lastComma == LastIndex(s4, ",")
                \* the last part of strings.Split(s, ".") keeps the dot before it
                s5 == IF lastDot > lastComma
                      THEN IF Count(s4, ".") > 1
                           THEN RemoveAll(SubSeq(s4, 1, lastDot), Dot)
                                    \o SubSeq(s4, lastDot + 1, Len(s4))
                           ELSE s4
                      ELSE ReplaceRune(RemoveAll(s4, Dot), ",", Dot)
            IN  Only({Number(filtered, neg) :
                         filtered \in {SelectSeq(s5, LAMBDA r : IsDigit(r) \/ r = ".")}})
        Signed(s2) ==
            LET paren == HasPrefix(s2, <<"(">>) /\ HasSuffix(s2, <<")">>)
                s3 == IF paren THEN TrimPrefix(TrimSuffix(s2, <<")">>), <<"(">>) ELSE s2
                minus == HasPrefix(s3, <<"-">>)
            IN  IF s2 = << >> THEN [val |-> 0, err |-> FALSE]
                ELSE Only({Unsigned(s4, paren \/ minus) : s4 \in {TrimPrefix(s3, <<"-">>)}})
    IN  IF TrimSpace(val) = << >> THEN [val |-> 0, err |-> FALSE]
        ELSE Only({Signed(s2) :
                      s2 \in {TrimSpace(RemoveAll(RemoveAll(RemoveAll(TrimSpace(val),
                                  <<"R", "$">>), <<" ">>), <<"U+00A0">>))}})

\* fmt.Sprintf("%.2f", val) with the point replaced by a comma
formatTwoDecimalsComma(val) ==
    LET abs == IF val < 0 THEN 0 - val ELSE val
        cents == abs % 100
    IN  (IF val < 0 THEN <<"-">> ELSE << >>)
            \o Itoa(abs \div 100) \o Comma
            \o <<DigitRunes[(cents \div 10) + 1], DigitRunes[(cents % 10) + 1]>>

(***************************************************************************)
(* Dates: a time.Time at midnight UTC is the record [y, m, d].             *)
(***************************************************************************)
DaysIn(m, y) ==
    IF m = 2 THEN (IF (y % 4 = 0 /\ y % 100 # 0) \/ y % 400 = 0 THEN 29 ELSE 28)
    ELSE IF m \in {4, 6, 9, 11} THEN 30 ELSE 31

\* zero-padded decimal of n, at least w digits
Pad(n, w) ==
    LET d == Itoa(n)
    IN  [i \in 1..(IF Len(d) < w THEN w - Len(d) ELSE 0) |-> "0"] \o d

\* time.Parse("02/01/2006", value): << >> on error, <<t>> otherwise
TimeParseDMY(value) ==
    IF /\ Len(value) = 10
       /\ value[3] = "/" /\ value[6] = "/"
       /\ AllDigits(SubSeq(value, 1, 2))
       /\ AllDigits(SubSeq(value, 4, 5))
       /\ AllDigits(SubSeq(value, 7, 10))
    THEN LET d == Atoi(SubSeq(value, 1, 2))
             m == Atoi(SubSeq(value, 4, 5))
             y == Atoi(SubSeq(value, 7, 10))
         IN  IF m \in 1..12 /\ d >= 1 /\ d <= DaysIn(m, y)
             THEN <<[y |-> y, m |-> m, d |-> d]>>
             ELSE << >>
    ELSE << >>

\* the day count of a calendar date (days since 1 March of year 0)
DayNumber(t) ==
    LET y == IF t.m <= 2 THEN t.y - 1 ELSE t.y
        mp == IF t.m <= 2 THEN t.m + 9 ELSE t.m - 3
    IN  365 * y + (y \div 4) - (y \div 100) + (y \div 400)
            + ((153 * mp + 2) \div 5) + t.d - 1

\* the calendar date of a day count
CivilFromDays(z) ==
    LET era == z \div 146097
        doe == z - era * 146097
        yoe == (doe - (doe \div 1460) + (doe \div 36524) - (doe \div 146096)) \div 365
        doy == doe - (365 * yoe + (yoe \div 4) - (yoe \div 100))
        mp == (5 * doy + 2) \div 153
        m == IF mp < 10 THEN mp + 3 ELSE mp - 9
    IN  [y |-> yoe + era * 400 + (IF m <= 2 THEN 1 ELSE 0), m |-> m,
         d |-> doy - ((153 * mp + 2) \div 5) + 1]

\* excelSerialToDate(serial) for a serial of whole part n: n days after
\* 1899-12-30 (the fraction of the serial is a time of that day)
excelSerialToDate(n) == CivilFromDays(DayNumber([y |-> 1899, m |-> 12, d |-> 30]) + n)

\* mutant: the day after, without carrying into the month
AddDate1NoCarry(t) == [t EXCEPT !.d = t.d + 1]

\* t.AddDate(0, 0, 1)
AddDate1(t) ==
    IF t.d < DaysIn(t.m, t.y) THEN [t EXCEPT !.d = t.d + 1]
    ELSE IF t.m < 12 THEN [y |-> t.y, m |-> t.m + 1, d |-> 1]
    ELSE [y |-> t.y + 1, m |-> 1, d |-> 1]

\* a.Before(b)
Before(a, b) ==
    \/ a.y < b.y
    \/ a.y = b.y /\ a.m < b.m
    \/ a.y = b.y /\ a.m = b.m /\ a.d < b.d

\* t.Format("02/01/2006")
FormatDMY(t) == Pad(t.d, 2) \o <<"/">> \o Pad(t.m, 2) \o <<"/">> \o Pad(t.y, 4)

(***************************************************************************)
(* sanitizeForCSV and the CSV writers.                                     *)
(***************************************************************************)
\* strings.TrimSpace alone
sanitizeForCSVTrimOnly(s) == TrimSpace(s)

\* U+0001, U+000B and \f are the runes below 32, other than \t \n \r, that
\* the inputs may hold
sanitizeForCSV(s) ==
    LET b == {[i \in DOMAIN kept |->
                  IF kept[i] \in {"U+0001", "U+000B", "\f"} THEN " " ELSE kept[i]] :
                 kept \in {SelectSeq(TrimSpace(s), LAMBDA r : r \notin {"\r", "\n", "\t"})}}
    IN  TrimSpace(Only(b))

(***************************************************************************)
(* Variant A: ProcessSicrediFiles.                                         *)
(***************************************************************************)
\* getCell-free access of the code: record[i] with the 0-based index i
Field(record, i) == record[i + 1]

\* one record of carregarLancamentos: << >> when the record is skipped
LancamentoOf(record) ==
    IF Len(record) < 9 \/ ~HasPrefix(ToUpper(Field(record, 0)), Runes("SIMPLES"))
    THEN << >>
    ELSE LET dataLiq == TimeParseDMY(Field(record, 6))
             parsed == parseBRLNumber(Field(record, 8))
             descricaoCredito == TrimSpace(Field(record, 4))
         IN  IF dataLiq = << >> THEN << >>
             ELSE <<[DataLiquidacao |-> dataLiq[1],
                     Descricao |-> descricaoCredito,
                     Valor |-> IF parsed.err THEN 0 ELSE parsed.val,
                     Historico |-> Runes("RECEBIMENTO DE ") \o descricaoCredito
                        \o Runes(" CONFORME BOLETO ") \o Field(record, 2)
                        \o Runes(" COM VENCIMENTO EM ") \o Field(record, 5)
                        \o Runes(" REFERENTE DOCUMENTO ") \o Field(record, 1)]>>

\* the loop stops at the first record it cannot use
RECURSIVE carregarLancamentosUntilBad(_)
carregarLancamentosUntilBad(records) ==
    IF records = << >> \/ LancamentoOf(Head(records)) = << >> THEN << >>
    ELSE LancamentoOf(Head(records)) \o carregarLancamentosUntilBad(Tail(records))

carregarLancamentos(records) ==
    Flatten([i \in DOMAIN records |-> LancamentoOf(records[i])])

\* sort.Slice(lancamentos, DataLiquidacao.Before): every arrangement in
\* which no entry stands before one of an earlier date
SortByDataLiquidacao(lancamentos) ==
    {t \in {ApplyPerm(lancamentos, f) : f \in Perms(Len(lancamentos))} :
        \A i \in 1..(Len(t) - 1) : ~Before(t[i + 1].DataLiquidacao, t[i].DataLiquidacao)}

\* mutant: every entry is a group of its own
GroupEndAtOnce(lancamentos, i) == i

\* the end of the group montarOutputSicredi collects from position i on
GroupEnd(lancamentos, i) ==
    CHOOSE j \in i..Len(lancamentos) :
        /\ \A k \in i..j : lancamentos[k].DataLiquidacao = lancamentos[i].DataLiquidacao
        /\ j = Len(lancamentos)
              \/ lancamentos[j + 1].DataLiquidacao # lancamentos[i].DataLiquidacao

OutputRow(op, data, desc, conta, valor, hist) ==
    [Operacao |-> op, Data |-> data, DescricaoCredito |-> desc,
     ContaCredito |-> conta, Valor |-> valor, Historico |-> hist]

\* the record gerarCSVSicredi writes for a row
RecordOfRow(row) ==
    <<sanitizeForCSV(row.Operacao), sanitizeForCSV(row.Data),
      sanitizeForCSV(row.DescricaoCredito), sanitizeForCSV(row.ContaCredito),
      sanitizeForCSV(row.Valor), sanitizeForCSV(row.Historico)>>

HeaderSicredi ==
    << Runes("Opera") \o <<"U+00E7", "U+00E3">> \o Runes("o"), Runes("Data"),
       Runes("Descri") \o <<"U+00E7", "U+00E3">> \o Runes("o Credito"),
       Runes("Conta Credito"), Runes("Valor"), Runes("Historico") >>

gerarCSVSicredi(rows) ==
    <<[i \in DOMAIN HeaderSicredi |-> sanitizeForCSV(HeaderSicredi[i])]>>
        \o [i \in DOMAIN rows |-> RecordOfRow(rows[i])]

\* the records gerarCSVReceitasAcisa hands to its writer
gerarCSVReceitasAcisa(rows) ==
    LET header ==
            << Runes("Data"), Runes("Descri") \o <<"U+00E7", "U+00E3">> \o Runes("o"),
               Runes("Conta"), Runes("Mensalidade"), Runes("Pis"),
               Runes("Hist") \o <<"U+00F3">> \o Runes("rico") >>
    IN  <<[i \in DOMAIN header |-> sanitizeForCSV(header[i])]>>
            \o [i \in DOMAIN rows |->
                   <<sanitizeForCSV(rows[i].Data), sanitizeForCSV(rows[i].Descricao),
                     sanitizeForCSV(rows[i].Conta), sanitizeForCSV(rows[i].Mensalidade),
                     sanitizeForCSV(rows[i].Pis), sanitizeForCSV(rows[i].Historico)>>]

\* most records of an entries file of Variant A
MaxLanc == 3

\* a record of the entries file: the code reads the fields 0 (kind),
\* 1 (document), 2 (boleto), 4 (payer), 5 (due date), 6 (settlement date)
\* and 8 (amount)
LancRecord(kind, doc, boleto, payer, due, settled, amount) ==
    <<Runes(kind), Runes(doc), Runes(boleto), << >>, Runes(payer), Runes(due),
      Runes(settled), << >>, Runes(amount)>>

LancPool ==
    { LancRecord("SIMPLES", "1", "7", "AB", "x", "31/12/2023", "10,00"),
      LancRecord("Simples com registro", "2", "8", " ab ", "x", "31/12/2023", "(4,95)"),
      LancRecord("SIMPLES", "3", "9", "C-D", "x", "28/02/2024", "1.234,56"),
      LancRecord("SIMPLES", "4", "9", "AX", "x", "30/04/2023", "1,2,3"),
      LancRecord("DESCONTO", "6", "9", "AB", "x", "31/12/2023", "40,00"),
      LancRecord("SIMPLES", "7", "9", "AB", "x", "31/02/2024", "80,00"),
      SubSeq(LancRecord("SIMPLES", "8", "9", "AB", "x", "31/12/2023", "160,00"), 1, 8) }

LancFiles == UNION {[1..n -> LancPool] : n \in 0..MaxLanc}

\* the accounts file of the Variant A behaviours
SicrediContas ==
    << <<Runes("11"), Runes("1.2"), Runes("AB")>>,
       <<Runes("21"), Runes("2.1"), Runes("ab")>>,
       <<Runes("31"), Runes("1.2"), Runes("C-D")>> >>

SicrediPrefixes == { <<Runes("2")>> }

\* every name is taken for the csv format
FormatoDeAny(lancamentosFilename) == "csv"

\* the case the switch of ProcessSicrediFiles takes on
\* strings.ToLower(filepath.Ext(lancamentosFilename)); filepath.Ext is the
\* suffix from the last '.' of the last path element, "" without one
FormatoDe(lancamentosFilename) ==
    LET RECURSIVE Ext(_)
        Ext(i) == IF i = 0 \/ lancamentosFilename[i] = "/" THEN << >>
                  ELSE IF lancamentosFilename[i] = "."
                  THEN SubSeq(lancamentosFilename, i, Len(lancamentosFilename))
                  ELSE Ext(i - 1)
        ext == ToLower(Ext(Len(lancamentosFilename)))
    IN  IF ext = Runes(".xlsx") THEN "xlsx"
        ELSE IF ext = Runes(".xls") THEN "xls"
        ELSE IF ext = Runes(".csv") THEN "csv"
        ELSE "default"

\* input is the records the CSV reader of carregarLancamentos yields, from
\* the entries stream itself or from its conversion.  reads is history: the
\* streams read so far, in order; stages is history: for each row of
\* finalRows the match type matchContaSicredi returned for it, "" for a
\* row written without a call of the resolver.
InitSicredi ==
    /\ variant = "sicredi"
    /\ contas = SicrediContas
    /\ index = [map |-> << >>, order |-> << >>]
    /\ loaded = FALSE
    /\ res = NoRes
    /\ input \in LancFiles
    /\ \E P \in SicrediPrefixes :
       \E name \in {Runes("l.csv"), Runes("L.XlsX"), Runes("l.xls"),
                     Runes("l.csv.txt"), Runes("d.csv/xlsx")} :
           st = [classPrefixes |-> P, lancamentosFilename |-> name,
                 reads |-> << >>, err |-> FALSE,
                 lancamentos |-> << >>, i |-> 0, fim |-> 0,
                 dataLancamento |-> << >>, finalRows |-> << >>, stages |-> << >>]
    /\ out = << >>
    /\ pc = "entry"

\* ProcessSicrediFiles, the switch on the extension: a workbook is
\* converted (the entries stream is read; the conversion fails when the
\* stream is not a workbook), a .csv stream is kept for later, any other
\* extension returns an error
SicrediFormato ==
    /\ pc = "entry"
    /\ \E formato \in {FormatoDe(st.lancamentosFilename)} :
           IF formato \in {"xlsx", "xls"}
           THEN \E workbook \in BOOLEAN :
                    /\ st' = [st EXCEPT !.reads = Append(@, "lancamentos"),
                                        !.err = ~workbook]
                    /\ pc' = IF workbook THEN "start" ELSE "failed"
           ELSE IF formato = "csv"
           THEN st' = st /\ pc' = "start"
           ELSE st' = [st EXCEPT !.err = TRUE] /\ pc' = "failed"
    /\ UNCHANGED <<variant, contas, index, loaded, res, input, out>>

\* ProcessSicrediFiles up to the call of montarOutputSicredi: the accounts
\* are loaded, then the entries, then the entries are sorted by date
SicrediCarregar ==
    /\ pc = "start"
    /\ index' = loadContasSicredi(contas)
    /\ loaded' = TRUE
    /\ \E sorted \in SortByDataLiquidacao(carregarLancamentos(input)) :
           st' = [st EXCEPT !.lancamentos = sorted, !.i = 1,
                            !.reads = @ \o <<"contas">>
                                \o (IF "lancamentos" \in Range(@) THEN << >>
                                    ELSE <<"lancamentos">>)]
    /\ pc' = "montar"
    /\ UNCHANGED <<variant, contas, res, input, out>>

\* processarGrupoSicredi on the next group of montarOutputSicredi, up to its
\* 'D' row
SicrediGrupo ==
    /\ pc = "montar"
    /\ st.i <= Len(st.lancamentos) /\ st.fim < st.i
    /\ LET fim == GroupEnd(st.lancamentos, st.i)
           totalDiario == SeqSum([k \in 1..(fim - st.i + 1) |->
                                     st.lancamentos[st.i + k - 1].Valor])
           dataLancamento == FormatDMY(AddDate1(st.lancamentos[st.i].DataLiquidacao))
       IN  st' = [st EXCEPT
                    !.fim = fim,
                    !.dataLancamento = dataLancamento,
                    !.stages = Append(@, ""),
                    !.finalRows = Append(@, OutputRow(<<"D">>, dataLancamento, << >>,
                        Sentinel, formatTwoDecimalsComma(totalDiario),
                        <<"T", "U+00CD">> \o Runes("TULOS RECEBIDOS NA DATA")))]
    /\ UNCHANGED <<variant, contas, index, loaded, res, input, out, pc>>

\* processarGrupoSicredi: the 'C' row of the next entry of the group
SicrediCredito ==
    /\ pc = "montar"
    /\ st.i <= st.fim
    /\ LET l == st.lancamentos[st.i]
       IN  \E o \in matchContaSicredi(l.Descricao, index.map, index.order, st.classPrefixes) :
               /\ index' = [index EXCEPT !.map = o.map]
               /\ st' = [st EXCEPT
                           !.i = @ + 1,
                           !.stages = Append(@, o.stage),
                           !.finalRows = Append(@, OutputRow(<<"C">>, st.dataLancamento,
                               l.Descricao, o.code, formatTwoDecimalsComma(l.Valor),
                               l.Historico))]
    /\ UNCHANGED <<variant, contas, loaded, res, input, out, pc>>

\* montarOutputSicredi returns and gerarCSVSicredi writes the rows
SicrediGerarCSV ==
    /\ pc = "montar"
    /\ st.i > Len(st.lancamentos)
    /\ out' = gerarCSVSicredi(st.finalRows)
    /\ pc' = "done"
    /\ UNCHANGED <<variant, contas, index, loaded, res, input, st>>

NextSicredi == SicrediFormato \/ SicrediCarregar \/ SicrediGrupo \/ SicrediCredito \/ SicrediGerarCSV

SpecSicredi == InitSicredi /\ [][NextSicredi]_vars

(***************************************************************************)
(* Properties of Variant A (SpecSicredi).                                  *)
(***************************************************************************)
\* the date a text dd/mm/yyyy of the output names
DateOfText(s) ==
    [y |-> Atoi(SubSeq(s, 7, 10)), m |-> Atoi(SubSeq(s, 4, 5)), d |-> Atoi(SubSeq(s, 1, 2))]

\* the cents an amount text of the output names: [-]digits,dd
CentsOfText(s) ==
    LET neg == s # << >> /\ s[1] = "-"
        body == IF neg THEN Tail(s) ELSE s
        abs == Atoi(SubSeq(body, 1, Len(body) - 3)) * 100
                   + Atoi(SubSeq(body, Len(body) - 1, Len(body)))
    IN  IF neg THEN 0 - abs ELSE abs

\* the 'D' rows among the data rows
DRowsOf(rows) == {i \in DOMAIN rows : rows[i][1] = <<"D">>}

\* the 'C' rows that follow the 'D' row i, up to the next 'D' row
BlockAfter(rows, i) ==
    {j \in DOMAIN rows : j > i /\ \A k \in (i + 1)..j : rows[k][1] = <<"C">>}

\* the k-th earliest of the dates
KthDate(dates, k) ==
    CHOOSE d \in dates :
        Cardinality({e \in dates : DayNumber(e) <= DayNumber(d)}) = k

\* the sum of the amounts of the rows T
RECURSIVE SumOfRows(_, _)
SumOfRows(rows, T) ==
    IF T = {} THEN 0
    ELSE LET j == CHOOSE j \in T : TRUE
         IN  CentsOfText(rows[j][5]) + SumOfRows(rows, T \ {j})

\* C6: in the output of Variant A the amount of every 'D' row is the sum, in
\* cents, of the amounts of the 'C' rows of its group, and the date of the
\* 'D' row and of each of these 'C' rows is the calendar day after the
\* group's settlement date, across month and year ends too.
C6_DailyAggregate ==
    pc = "done" =>
        LET rows == Tail(out)
            lanc == Flatten([i \in DOMAIN input |-> LancamentoOf(input[i])])
            dates == {lanc[i].DataLiquidacao : i \in DOMAIN lanc}
            dRows == DRowsOf(rows)
        IN  \A i \in dRows :
                LET block == BlockAfter(rows, i)
                    settled == KthDate(dates, Cardinality({k \in dRows : k <= i}))
                IN  /\ CentsOfText(rows[i][5]) = SumOfRows(rows, block)
                    /\ \A j \in block : rows[j][2] = rows[i][2]
                    /\ TimeParseDMY(rows[i][2]) # << >>
                    /\ DayNumber(DateOfText(rows[i][2])) = DayNumber(settled) + 1

\* a group of two different amounts settled on 31 December
C6_Witness ==
    /\ pc = "done"
    /\ \E i \in DRowsOf(Tail(out)) :
           /\ Tail(out)[i][2] = Runes("01/01/2024")
           /\ Tail(out)[i][5] = Runes("5,05")
           /\ Cardinality(BlockAfter(Tail(out), i)) = 2

\* C7: the data rows of the output of Variant A are, for each distinct
\* settlement date in ascending order, one 'D' row followed at once by one 'C'
\* row for each valid transaction of that date, whatever the order of the
\* input; there are as many data rows as valid transactions plus distinct
\* settlement dates.
C7_OutputStructure ==
    pc = "done" =>
        LET rows == Tail(out)
            lanc == Flatten([i \in DOMAIN input |-> LancamentoOf(input[i])])
            hist == [i \in DOMAIN lanc |-> sanitizeForCSV(lanc[i].Historico)]
            dates == {lanc[i].DataLiquidacao : i \in DOMAIN lanc}
            dRows == DRowsOf(rows)
        IN  /\ Len(rows) = Len(lanc) + Cardinality(dates)
            /\ Cardinality(dRows) = Cardinality(dates)
            /\ \A j \in DOMAIN rows :
                   j \in dRows \/ \E i \in dRows : j \in BlockAfter(rows, i)
            /\ \A i \in dRows :
                   LET block == BlockAfter(rows, i)
                       settled == KthDate(dates, Cardinality({k \in dRows : k <= i}))
                       ofDate == {r \in DOMAIN lanc : lanc[r].DataLiquidacao = settled}
                   IN  /\ Cardinality(block) = Cardinality(ofDate)
                       /\ \A j \in block :
                              Cardinality({k \in block : rows[k][6] = rows[j][6]})
                                  = Cardinality({r \in ofDate : hist[r] = rows[j][6]})

\* three valid records given latest date first, two of them of one date
C7_Witness ==
    /\ pc = "done"
    /\ Len(input) = 3
    /\ \A i \in 1..3 : LancamentoOf(input[i]) # << >>
    /\ LancamentoOf(input[1])[1].DataLiquidacao = LancamentoOf(input[2])[1].DataLiquidacao
    /\ Before(LancamentoOf(input[3])[1].DataLiquidacao,
              LancamentoOf(input[1])[1].DataLiquidacao)
    /\ Len(out) = 6

\* C17: in Variant A the records with fewer than 9 fields, the records
\* whose first field does not start with SIMPLES (letter case ignored) and
\* the records whose settlement date does not parse are skipped without an
\* error: the entries the output is built from are those of the input with
\* these records removed, and the run ends with as many 'C' rows as records
\* remain; a remaining record whose amount does not parse is kept with the
\* amount 0.
C17_BadRowsSkipped ==
    (variant = "sicredi" /\ pc \in {"montar", "done"}) =>
        LET Usable(record) ==
                /\ Len(record) >= 9
                /\ Len(record[1]) >= 7
                /\ ToUpper(SubSeq(record[1], 1, 7)) = Runes("SIMPLES")
                /\ TimeParseDMY(record[7]) # << >>
            remaining == SelectSeq(input, Usable)
            expected == Flatten([i \in DOMAIN remaining |-> LancamentoOf(remaining[i])])
        IN  /\ Len(expected) = Len(remaining)
            /\ st.lancamentos \in SortByDataLiquidacao(expected)
            /\ \A i \in DOMAIN remaining :
                   parseBRLNumber(remaining[i][9]).err =>
                       \E k \in DOMAIN st.lancamentos :
                           /\ st.lancamentos[k] = LancamentoOf(remaining[i])[1]
                           /\ st.lancamentos[k].Valor = 0
            /\ pc = "done" =>
                   /\ Len(out) = 1 + Len(remaining)
                         + Cardinality({remaining[i][7] : i \in DOMAIN remaining})
                   /\ \A i \in DOMAIN remaining :
                          parseBRLNumber(remaining[i][9]).err =>
                              \E k \in DOMAIN out :
                                  /\ out[k][1] = <<"C">>
                                  /\ out[k][5] = Runes("0,00")
                                  /\ out[k][6] =
                                        sanitizeForCSV(LancamentoOf(remaining[i])[1].Historico)

\* a file with a record of another kind, a record with the date 31/02/2024
\* and a record with the amount 1,2,3 was converted: one 'D' row and one 'C'
\* row of 0,00
C17_Witness ==
    /\ variant = "sicredi" /\ pc = "done"
    /\ Len(input) = 3
    /\ input[1][1] = Runes("DESCONTO")
    /\ input[2][7] = Runes("31/02/2024")
    /\ Len(input[3]) = 9 /\ input[3][9] = Runes("1,2,3")
    /\ Len(out) = 3
    /\ out[3][5] = Runes("0,00")

\* C18: ProcessSicrediFiles called with a file name whose lower-cased
\* extension is not .csv, .xls or .xlsx returns an error and no output
\* without reading the entries stream or the accounts stream; with one of
\* these extensions the accounts stream is read only after the switch on
\* the extension, when a workbook has been converted.
C18_UnsupportedFormatFailsFast ==
    variant = "sicredi" =>
        LET name == st.lancamentosFilename
            dots == {i \in DOMAIN name : name[i] = "."}
            slashes == {i \in DOMAIN name : name[i] = "/"}
            lastDot == IF dots = {} THEN 0 ELSE CHOOSE i \in dots : \A j \in dots : j <= i
            ext == IF lastDot = 0 \/ \E i \in slashes : i > lastDot THEN << >>
                   ELSE ToLower(SubSeq(name, lastDot, Len(name)))
            supported == ext \in {Runes(".csv"), Runes(".xls"), Runes(".xlsx")}
        IN  /\ (~supported /\ pc # "entry") =>
                   pc = "failed" /\ st.err /\ out = << >> /\ st.reads = << >> /\ ~loaded
            /\ (loaded \/ "contas" \in Range(st.reads)) =>
                   /\ supported /\ ~st.err
                   /\ ext # Runes(".csv") => st.reads[1] = "lancamentos"
                   /\ ext = Runes(".csv") => st.reads = <<"contas", "lancamentos">>
            /\ pc = "failed" => out = << >> /\ ~loaded

\* a file named l.csv.txt was refused
C18_Witness ==
    /\ variant = "sicredi" /\ pc = "failed"
    /\ st.lancamentosFilename = Runes("l.csv.txt")
    /\ st.err /\ st.reads = << >> /\ input # << >>

getCell(row, idx) ==
    IF idx >= 0 /\ idx < Len(row) THEN TrimSpace(row[idx + 1]) ELSE << >>

\* time.Parse("2006-01-02", value): << >> on error, <<t>> otherwise
TimeParseYMD(value) ==
    IF /\ Len(value) = 10
       /\ value[5] = "-" /\ value[8] = "-"
       /\ AllDigits(SubSeq(value, 1, 4))
       /\ AllDigits(SubSeq(value, 6, 7))
       /\ AllDigits(SubSeq(value, 9, 10))
    THEN LET y == Atoi(SubSeq(value, 1, 4))
             m == Atoi(SubSeq(value, 6, 7))
             d == Atoi(SubSeq(value, 9, 10))
         IN  IF m \in 1..12 /\ d >= 1 /\ d <= DaysIn(m, y)
             THEN <<[y |-> y, m |-> m, d |-> d]>>
             ELSE << >>
    ELSE << >>

\* strconv.ParseFloat(s, 64) of a cell followed by the plausible-serial test
\* f > 35000 && f < 47000: << >> when either fails, <<whole part>> otherwise
\* (decimal syntax [+]digits[.digits] of up to nine digits)
ExcelSerialOf(s) ==
    LET body == IF s # << >> /\ s[1] = "+" THEN Tail(s) ELSE s
        point == IF Count(body, ".") = 0 THEN Len(body) + 1 ELSE LastIndex(body, ".") + 1
        whole == SubSeq(body, 1, point - 1)
        frac == SubSeq(body, point + 1, Len(body))
        n == Atoi(whole)
    IN  IF ParseFloatOK(s) /\ AllDigits(whole) /\ Len(whole) <= 9
           /\ (n > 35000 \/ (n = 35000 /\ \E i \in DOMAIN frac : frac[i] # "0"))
           /\ n < 47000
        THEN <<n>>
        ELSE << >>

\* << >> when no date is recognised, <<the date as dd/mm/yyyy>> otherwise
parseDateDayFirst(str) ==
    LET s == TrimSpace(str)
        dmy == TimeParseDMY(s)
        ymd == IF Len(s) >= 10 THEN TimeParseYMD(SubSeq(s, 1, 10)) ELSE << >>
        serial == ExcelSerialOf(s)
    IN  IF s = << >> THEN << >>
        ELSE IF dmy # << >> THEN <<FormatDMY(dmy[1])>>
        ELSE IF ymd # << >> THEN <<FormatDMY(ymd[1])>>
        ELSE IF serial # << >> THEN <<FormatDMY(excelSerialToDate(serial[1]))>>
        ELSE << >>

\* regexp FindString of \b<shape>\b, the shape being ten runes with digits
\* at the places of digitAt and the separator sep elsewhere: << >> or <<m>>
FindDateShape(s, digitAt, sep) ==
    LET \* the class \w of \b
        IsWordRune(r) == IsUpperAZ(r) \/ IsLowerAZ(r) \/ IsDigit(r) \/ r = "_"
        Matches(p) ==
            /\ \A k \in 1..10 : IF k \in digitAt THEN IsDigit(s[p + k - 1])
                                ELSE s[p + k - 1] = sep
            /\ p = 1 \/ ~IsWordRune(s[p - 1])
            /\ p + 10 > Len(s) \/ ~IsWordRune(s[p + 10])
        at == {p \in 1..(Len(s) - 9) : Matches(p)}
    IN  IF at = {} THEN << >>
        ELSE LET p == CHOOSE p \in at : \A q \in at : p <= q
             IN  <<SubSeq(s, p, p + 9)>>

findDateInRow(row) ==
    LET \* what one cell gives: << >> or <<date>>
        DateInCell(c) ==
            LET clean == TrimSpace(c)
                m1 == FindDateShape(clean, {1, 2, 4, 5, 7, 8, 9, 10}, "/")
                m2 == FindDateShape(clean, {1, 2, 3, 4, 6, 7, 9, 10}, "-")
                ymd == IF m2 = << >> THEN << >> ELSE TimeParseYMD(m2[1])
                serial == ExcelSerialOf(clean)
            IN  IF clean = << >> THEN << >>
                ELSE IF m1 # << >> THEN m1
                ELSE IF ymd # << >> THEN <<FormatDMY(ymd[1])>>
                ELSE IF serial # << >> THEN <<FormatDMY(excelSerialToDate(serial[1]))>>
                ELSE << >>
        found == Flatten([i \in DOMAIN row |-> DateInCell(row[i])])
    IN  IF found = << >> THEN << >> ELSE <<found[1]>>

(***************************************************************************)
(* Variant B: ProcessAtoliniPagamentos.                                    *)
(***************************************************************************)
normalizeKey(desc, prefixes) ==
    ToUpper(TrimSpace(desc)) \o <<"|">> \o Join(prefixes, Comma)

rowHasPrefixN(row, n, prefixes) ==
    \E i \in 1..(IF n > Len(row) THEN Len(row) ELSE n) :
        \E p \in prefixes : HasPrefix(ToLower(TrimSpace(row[i])), p)

Historico == Runes("hist") \o <<"U+00F3">> \o Runes("rico")

StartLabels == {Historico, Runes("historico")}

TotalLabels ==
    {Runes("total do ") \o Historico, Runes("total do historico"), Runes("total da data")}

\* updateBlockDateIfHeader: ok, and the block date it leaves; labelCol is the
\* column of the "Data de pag..." label among the first six, -1 if none
updateBlockDateIfHeader(row, blockDate) ==
    LET at == {i \in 0..((IF Len(row) < 6 THEN Len(row) ELSE 6) - 1) :
                  Contains(ToLower(TrimSpace(row[i + 1])), Runes("data de pag"))}
        labelCol == IF at = {} THEN -1 ELSE CHOOSE i \in at : \A j \in at : i <= j
        tried == Flatten([k \in 1..3 |->
                     parseDateDayFirst(getCell(row, <<9, labelCol + 1, labelCol + 2>>[k]))])
        d2 == findDateInRow(row)
    IN  IF labelCol = -1 THEN [ok |-> FALSE, blockDate |-> blockDate]
        ELSE IF tried # << >> THEN [ok |-> TRUE, blockDate |-> tried[1]]
        ELSE IF d2 # << >> THEN [ok |-> TRUE, blockDate |-> d2[1]]
        ELSE [ok |-> FALSE, blockDate |-> blockDate]

isBankish(str) ==
    LET s == ToUpper(TrimSpace(str))
    IN  /\ s # << >>
        /\ \E h \in {Runes("SICRED"), Runes("BANCO"), Runes("BRADESCO"), Runes("ITAU"),
                     Runes("SANTAND"), Runes("CAIXA"), Runes("BB"), Runes("CAIXA GERAL")} :
               Contains(s, h)

pickValorStr(row) ==
    LET ok == SelectSeq(<<8, 10, 11, 12, 9>>,
                        LAMBDA ci : LET v == TrimSpace(getCell(row, ci))
                                    IN  /\ v # << >> /\ v # Runes("0,00")
                                        /\ ~parseBRLNumber(v).err)
    IN  IF ok = << >> THEN << >> ELSE TrimSpace(getCell(row, ok[1]))

pickBanco(row) ==
    LET ok == SelectSeq(<<19, 18, 20, 21>>, LAMBDA c : isBankish(getCell(row, c)))
    IN  IF ok = << >> THEN << >> ELSE getCell(row, ok[1])

\* the first cell with three digits or more (such a cell passes len(c) >= 3)
extractDoc(row) ==
    LET cells == [i \in DOMAIN row |-> TrimSpace(row[i])]
        ok == SelectSeq(cells, LAMBDA c : Len(SelectSeq(c, IsDigit)) >= 3)
    IN  IF ok = << >> THEN << >> ELSE ok[1]

\* one cached resolution of step 6 of the loop: the code, and the cache and
\* the index map as the step leaves them
CachedBuscarConta(desc, prefixes, cache, contasMap, descricaoIndex) ==
    LET k == normalizeKey(desc, prefixes)
    IN  IF desc = << >>
        THEN {[id |-> << >>, cache |-> cache, map |-> contasMap]}
        ELSE IF k \in DOMAIN cache
        THEN {[id |-> cache[k], cache |-> cache, map |-> contasMap]}
        ELSE {[id |-> o.code, cache |-> (k :> o.code) @@ cache, map |-> o.map] :
                 o \in buscarContaAtolini(desc, contasMap, descricaoIndex, prefixes)}

gerarCSVAtoliniPagamentos(rows) ==
    LET header ==
            << Runes("Data"), Runes("Debito"),
               Runes("Desci") \o <<"U+00E7", "U+00E3">> \o Runes("o conta"),
               Runes("Credito"),
               Runes("Descri") \o <<"U+00E7", "U+00E3">> \o Runes("o Cr")
                   \o <<"U+00E9">> \o Runes("dito"),
               Runes("Valor"), Historico >>
    IN  <<[i \in DOMAIN header |-> sanitizeForCSV(header[i])]>>
            \o [i \in DOMAIN rows |->
                   <<sanitizeForCSV(rows[i].Data), sanitizeForCSV(rows[i].Debito),
                     sanitizeForCSV(rows[i].DescricaoConta), sanitizeForCSV(rows[i].Credito),
                     sanitizeForCSV(rows[i].DescricaoCredito), sanitizeForCSV(rows[i].Valor),
                     sanitizeForCSV(rows[i].Historico)>>]

\* most rows of a spreadsheet of Variants B and C
MaxRows == 4

\* a row of n cells, empty but for the cells given by 0-based column
SparseRow(n, cells) ==
    [i \in 1..n |-> IF (i - 1) \in DOMAIN cells THEN cells[i - 1] ELSE << >>]

PagRowPool ==
    { SparseRow(2, 0 :> Runes("Data de Pagamento:") @@ 1 :> Runes("01/02/2024")),
      SparseRow(9, 0 :> Runes("Data de pagamento") @@ 1 :> Runes("AB") @@ 8 :> Runes("7,00")),
      SparseRow(1, 0 :> <<"H">> \o Tail(Historico) \o <<":">>),
      SparseRow(1, 0 :> Runes("Total do historico")),
      SparseRow(2, 0 :> Runes("Total da data de pagamento") @@ 1 :> Runes("31/02/2024")),
      SparseRow(20, 1 :> <<"A", "U+0345", "B">> @@ 8 :> Runes("100,00")
                      @@ 19 :> Runes("BANCO X")),
      SparseRow(11, 1 :> <<"A", "U+0399", "B">> @@ 8 :> Runes("0,00") @@ 10 :> Runes("5,00")),
      SparseRow(9, 1 :> Runes("AB") @@ 3 :> Runes("NF1")) }

\* the accounts file of the behaviours of Variants B and C
AtoliniContas ==
    << <<Runes("11"), Runes("1.2"), Runes("AB")>>,
       <<Runes("12"), Runes("1.2"), Runes("A B")>>,
       <<Runes("21"), Runes("2.1"), Runes("BANCO X")>> >>

\* steps 3 to 6 of the loop body and the append of the output row
PagEmit(row, valStr, base) ==
    \E descDeb \in {TrimSpace(getCell(row, 1))} :
    \E descCred \in {TrimSpace(pickBanco(row))} :
    \E dcol \in {TrimSpace(getCell(row, 3))} :
    \E d \in CachedBuscarConta(descDeb, st.debitPrefixes, st.debCache,
                                index.map, index.order) :
    \E c \in CachedBuscarConta(descCred, st.creditPrefixes, st.credCache,
                                d.map, index.order) :
        LET val == parseBRLNumber(valStr).val
            doc == TrimSpace(extractDoc(row))
            hist == IF dcol # << >> THEN descDeb \o Runes(" NF ") \o dcol
                    ELSE IF doc # << >> /\ descDeb # << >>
                    THEN descDeb \o Runes(" NF ") \o doc
                    ELSE descDeb
        IN  /\ index' = [index EXCEPT !.map = c.map]
            /\ st' = [base EXCEPT
                        !.emitted = TRUE,
                        !.debCache = d.cache,
                        !.credCache = c.cache,
                        !.rows = Append(@,
                            [Data |-> sanitizeForCSV(st.blockDate),
                             Debito |-> sanitizeForCSV(d.id),
                             DescricaoConta |-> sanitizeForCSV(descDeb),
                             Credito |-> sanitizeForCSV(c.id),
                             DescricaoCredito |-> sanitizeForCSV(descCred),
                             Valor |-> sanitizeForCSV(formatTwoDecimalsComma(val)),
                             Historico |-> sanitizeForCSV(hist)])]

\* one iteration of the loop over the rows, on the next row of the sheet
PagRow ==
    /\ variant = "atolini" /\ pc = "rows"
    /\ Len(input) < MaxRows
    /\ \E row \in PagRowPool :
       \E hdr \in {updateBlockDateIfHeader(row, st.blockDate)} :
       \E start \in {rowHasPrefixN(row, 3, StartLabels)} :
       \E total \in {rowHasPrefixN(row, 3, TotalLabels)} :
           LET base == [st EXCEPT !.emitted = FALSE, !.dateSet = FALSE,
                                  !.narrativeWas = st.narrative,
                                  !.narrative = IF start THEN TRUE
                                                ELSE IF total THEN FALSE ELSE @]
           IN  /\ input' = Append(input, row)
               /\ IF hdr.ok
                  THEN /\ st' = [base EXCEPT !.blockDate = hdr.blockDate, !.dateSet = TRUE]
                       /\ UNCHANGED index
                  ELSE IF start
                  THEN st' = [base EXCEPT !.inHistorico = TRUE] /\ UNCHANGED index
                  ELSE IF total
                  THEN st' = [base EXCEPT !.inHistorico = FALSE] /\ UNCHANGED index
                  ELSE IF ~st.inHistorico \/ st.blockDate = << >>
                  THEN st' = base /\ UNCHANGED index
                  ELSE \E valStr \in {pickValorStr(row)} :
                       IF valStr = << >>
                       THEN st' = base /\ UNCHANGED index
                       ELSE PagEmit(row, valStr, base)
    /\ UNCHANGED <<variant, contas, loaded, res, out, pc>>

\* the rows are exhausted: gerarCSVAtoliniPagamentos writes the output
PagGerarCSV ==
    /\ variant = "atolini" /\ pc = "rows"
    /\ out' = gerarCSVAtoliniPagamentos(st.rows)
    /\ pc' = "done"
    /\ UNCHANGED <<variant, contas, index, loaded, res, input, st>>

(***************************************************************************)
(* Variant C: ProcessAtoliniRecebimentos.                                  *)
(***************************************************************************)
\* the prefix ^\s*\d+\s*- of recebimentoLancamentoRegex and of
\* extractAfterHyphenRegex: << >> without it, <<what follows the hyphen>>
AfterNumberHyphen(cell) ==
    LET a == DropWhileReSpace(cell)
        b == DropWhileDigit(a)
        c == DropWhileReSpace(b)
    IN  IF Len(b) < Len(a) /\ c # << >> /\ c[1] = "-" THEN <<Tail(c)>> ELSE << >>

extractAfterHyphen(cell) ==
    LET m == AfterNumberHyphen(cell)
        rest == DropWhileReSpace(m[1])
    IN  IF m = << >> THEN << >>
        ELSE IF ~DotStarToEnd(rest) THEN << >>
        ELSE TrimSpace(rest)

isDataMarker(cell) == HasPrefix(ToUpper(TrimSpace(cell)), Runes("DATA:"))

\* the tests for "PORTADOR DO PAGAMENTO" and "PORTADOR:" add nothing
isPortadorMarker(cell) == Contains(ToUpper(TrimSpace(cell)), Runes("PORTADOR"))

findDataMarkerIndex(row) ==
    LET at == {i \in DOMAIN row : isDataMarker(row[i])}
    IN  IF at = {} THEN -1 ELSE (CHOOSE i \in at : \A j \in at : i <= j) - 1

findPortadorIndex(row) ==
    LET at == {i \in DOMAIN row : isPortadorMarker(row[i])}
    IN  IF at = {} THEN -1 ELSE (CHOOSE i \in at : \A j \in at : i <= j) - 1

\* ^\s*\d+\s*-\s+.+$ : white space after the hyphen, then a rest of one rune
\* or more without a line feed
isLancamento(cell) ==
    LET m == AfterNumberHyphen(cell)
    IN  /\ m # << >>
        /\ \E k \in 1..(Len(m[1]) - 1) :
               /\ \A i \in 1..k : IsReSpace(m[1][i])
               /\ "\n" \notin Range(SubSeq(m[1], k + 1, Len(m[1])))

cleanPortadorText(str) ==
    LET \* strings.TrimRight(s, ":")
        RECURSIVE TrimRightColon(_)
        TrimRightColon(s) ==
            IF s # << >> /\ s[Len(s)] = ":"
            THEN TrimRightColon(SubSeq(s, 1, Len(s) - 1)) ELSE s
        s1 == TrimRightColon(TrimSpace(str))
        long == Runes("PORTADOR DO PAGAMENTO")
        s2 == IF HasPrefix(ToUpper(s1), long)
              THEN TrimSpace(SubSeq(s1, Len(long) + 1, Len(s1))) ELSE s1
        s3 == IF HasPrefix(ToUpper(s2), Runes("PORTADOR"))
              THEN TrimSpace(SubSeq(s2, 9, Len(s2))) ELSE s2
    IN  TrimSpace(s3)

pickPortadorFromRow(row, markerIdx) ==
    LET valMarker == IF markerIdx >= 0 /\ markerIdx < Len(row)
                     THEN TrimSpace(row[markerIdx + 1]) ELSE << >>
        \* what follows the first colon of s, << >> when s has none
        RECURSIVE AfterColon(_)
        AfterColon(s) ==
            IF s = << >> THEN << >>
            ELSE IF Head(s) = ":" THEN Tail(s)
            ELSE AfterColon(Tail(s))
        part == TrimSpace(AfterColon(valMarker))
        fromMarker == IF part # << >> /\ ~isPortadorMarker(part)
                      THEN cleanPortadorText(part) ELSE << >>
        searchOrder == [k \in 1..8 |-> markerIdx + <<1, 2, -1, -2, 3, -3, 4, -4>>[k]]
                           \o [k \in 1..13 |-> k - 1]
        ok == SelectSeq(searchOrder,
                        LAMBDA c : /\ c >= 0 /\ c < Len(row)
                                   /\ TrimSpace(row[c + 1]) # << >>
                                   /\ ~isPortadorMarker(TrimSpace(row[c + 1]))
                                   /\ cleanPortadorText(TrimSpace(row[c + 1])) # << >>)
    IN  IF fromMarker # << >> THEN fromMarker
        ELSE IF ok = << >> THEN << >>
        ELSE cleanPortadorText(TrimSpace(row[ok[1] + 1]))

findLastPortadorBefore(sheet, idx, lookback) ==
    LET \* what precedes the first line feed of s
        RECURSIVE UntilLineFeed(_)
        UntilLineFeed(s) ==
            IF s = << >> \/ Head(s) = "\n" THEN << >>
            ELSE <<Head(s)>> \o UntilLineFeed(Tail(s))
        \* s without the line feeds at its end
        RECURSIVE Strip(_)
        Strip(s) == IF s # << >> /\ s[Len(s)] = "\n"
                    THEN Strip(SubSeq(s, 1, Len(s) - 1)) ELSE s
        \* FindString of ^\s*\d+\s*-\s*.+ : \s* takes the white space after
        \* the hyphen and .+ the rest up to a line feed; when only white space
        \* follows the hyphen, .+ is its last rune that is not a line feed
        Match(c) ==
            LET m == AfterNumberHyphen(c)
                rest == DropWhileReSpace(m[1])
                blank == SelectSeq(m[1], LAMBDA r : r # "\n")
            IN  IF m = << >> THEN << >>
                ELSE IF rest # << >>
                THEN SubSeq(c, 1, Len(c) - Len(rest)) \o UntilLineFeed(rest)
                ELSE IF blank # << >> THEN Strip(c)
                ELSE << >>
        \* what one earlier row gives: << >> or <<payer>>
        PortadorInRow(row) ==
            LET pIdx == findPortadorIndex(row)
                val == pickPortadorFromRow(row, pIdx)
                right == SelectSeq([k \in 1..6 |-> pIdx + k],
                                   LAMBDA j : j < Len(row) /\ row[j + 1] # << >>)
                numbered == SelectSeq(row, LAMBDA c : Match(c) # << >>)
                nonEmpty == Len(SelectSeq(row, LAMBDA c : TrimSpace(c) # << >>))
            IN  IF pIdx # -1 /\ val # << >> THEN <<val>>
                ELSE IF pIdx # -1 /\ right # << >>
                THEN <<cleanPortadorText(row[right[1] + 1])>>
                ELSE IF numbered # << >> /\ nonEmpty <= 6
                THEN <<cleanPortadorText(Match(numbered[1]))>>
                ELSE << >>
        end == IF idx - lookback < 0 THEN 0 ELSE idx - lookback
        hits == {i \in end..(idx - 1) : PortadorInRow(sheet[i + 1]) # << >>}
    IN  IF hits = {} THEN << >>
        ELSE PortadorInRow(sheet[(CHOOSE i \in hits : \A j \in hits : j <= i) + 1])

findDateInPreviousRows(sheet, idx, lookback) ==
    LET \* what one earlier row gives: << >> or <<date>>
        DateInPreviousRow(row) ==
            LET c0 == IF Len(row) > 0 THEN ToLower(TrimSpace(row[1])) ELSE << >>
                dataStr == IF Contains(c0, Runes("data de pagamento")) /\ Len(row) > 2
                           THEN TrimSpace(row[3]) ELSE << >>
                dmy == TimeParseDMY(dataStr)
                serial == ExcelSerialOf(dataStr)
            IN  IF dataStr # << >> /\ dmy # << >> THEN <<FormatDMY(dmy[1])>>
                ELSE IF dataStr # << >> /\ serial # << >>
                THEN <<FormatDMY(excelSerialToDate(serial[1]))>>
                ELSE findDateInRow(row)
        end == IF idx - lookback < 0 THEN 0 ELSE idx - lookback
        hits == {i \in end..(idx - 1) : DateInPreviousRow(sheet[i + 1]) # << >>}
    IN  IF hits = {} THEN << >>
        ELSE DateInPreviousRow(sheet[(CHOOSE i \in hits : \A j \in hits : j <= i) + 1])

\* csv.NewWriter(transform.NewWriter(&buffer, charmap.Windows1252.NewEncoder()))
\* after writer.Flush(): buffer.Bytes() and writer.Error().  The encoder
\* stops with an error at the first rune it cannot encode, and what it
\* converted before that rune is already in the buffer: the buffer is
\* taken record by record, it holds the records before the offending one.
Windows1252Written(records) ==
    LET \* the runes of the model that charmap.Windows1252 cannot encode
        NotWindows1252 == {"U+0345", "U+0399", "U+03B9", "U+0301"}
        bad == {i \in DOMAIN records :
                   \E j \in DOMAIN records[i] : Range(records[i][j]) \cap NotWindows1252 # {}}
    IN  IF bad = {} THEN [records |-> records, err |-> FALSE]
        ELSE [records |-> SubSeq(records, 1, (CHOOSE i \in bad : \A j \in bad : i <= j) - 1),
              err |-> TRUE]

\* buffer.Bytes() as records, and writer.Error() # nil
gerarCSVAtoliniRecebimentos(rows) ==
    LET header ==
            << Runes("Data"),
               Runes("Descri") \o <<"U+00E7", "U+00E3">> \o Runes("o Credito"),
               Runes("conta cr") \o <<"U+00E9">> \o Runes("dito"),
               Runes("Descri") \o <<"U+00E7", "U+00E3">> \o Runes("o D")
                   \o <<"U+00E9">> \o Runes("bito"),
               Runes("conta Debito"), <<"H">> \o Tail(Historico),
               Runes("valor Principal"), Runes("Juros"), Runes("Desconto"),
               Runes("Desp Banco"), Runes("Desp Cart") \o <<"U+00F3">> \o Runes("rio"),
               Runes("VlLiq Pago") >>
        records ==
            <<[i \in DOMAIN header |-> sanitizeForCSV(header[i])]>>
                \o [i \in DOMAIN rows |->
                       <<sanitizeForCSV(rows[i].Data),
                         sanitizeForCSV(rows[i].DescricaoCredito),
                         sanitizeForCSV(rows[i].ContaCredito),
                         sanitizeForCSV(rows[i].DescricaoDebito),
                         sanitizeForCSV(rows[i].ContaDebito),
                         sanitizeForCSV(rows[i].Historico),
                         sanitizeForCSV(rows[i].ValorPrincipal),
                         sanitizeForCSV(rows[i].Juros),
                         sanitizeForCSV(rows[i].Desconto),
                         sanitizeForCSV(rows[i].DespBanco),
                         sanitizeForCSV(rows[i].DespCartorio),
                         sanitizeForCSV(rows[i].VlLiqPago)>>]
    IN  Only({Windows1252Written(r) : r \in {records}})

RecRowPool ==
    { << Runes("Data:"), Runes("05/03/2024") >>,
      << Runes("DATA:") >>,
      << Runes("Portador do Pagamento: 7 - BANCO X") >>,
      << Runes("Portador"), << >>, Runes("AB") >>,
      SparseRow(18, 0 :> Runes("1 - A B") @@ 4 :> Runes("NF9") @@ 9 :> Runes("DUPL")
                      @@ 12 :> Runes("100,00") @@ 13 :> Runes("1,50")
                      @@ 17 :> Runes("101,50")),
      << << >>, Runes("12 - AB") >>,
      << Runes("Emitido em 01/02/2024") >> }

\* mutant: the payer and payee codes are never resolved
CodigoSempreSentinela(descricao, descricaoIndex, contasMap, classPrefixes) ==
    {[id |-> Sentinel, map |-> contasMap]}

\* findContaCodigoByDescricao with the caller's test for an empty code
CodigoOuSentinela(descricao, descricaoIndex, contasMap, classPrefixes) ==
    {[id |-> IF o.code = << >> THEN Sentinel ELSE o.code, map |-> o.map] :
        o \in findContaCodigoByDescricao(descricao, descricaoIndex, contasMap, classPrefixes)}

\* the branch of the loop body for a transaction row
RecEmit(row, lancIdx, base) ==
    \E currentData \in {IF st.currentData = << >>
                        THEN findDateInPreviousRows(input, Len(input), 60) \o <<<< >>>>
                        ELSE <<st.currentData>>} :
    \E p \in {IF st.currentDescDebito = << >>
              THEN findLastPortadorBefore(input, Len(input), 60) ELSE << >>} :
    \E descCredito \in {stripLeadingNumberPrefix(extractAfterHyphen(getCell(row, lancIdx)))} :
    \E c5 \in {IF getCell(row, 4) # << >> THEN getCell(row, 4) ELSE getCell(row, lancIdx + 4)} :
    \E c9 \in {IF getCell(row, 9) # << >> THEN getCell(row, 9) ELSE getCell(row, lancIdx + 9)} :
    \E d \in (IF p = << >>
              THEN {[id |-> st.currentCodDebito, map |-> index.map]}
              ELSE CodigoOuSentinela(p[1], index.order, index.map, st.debitPrefixes)) :
    \E c \in CodigoOuSentinela(descCredito, index.order, d.map, st.creditPrefixes) :
        LET historico ==
                sanitizeForCSV(TrimSpace(
                    (IF TrimSpace(c9) # << >> THEN TrimSpace(c9) \o <<" ">> ELSE << >>)
                        \o Runes("CONFORME DOCUMENTO ") \o TrimSpace(c5)
                        \o (IF descCredito # << >> THEN Runes(" DE ") \o descCredito
                            ELSE << >>)))
            Valor(col) ==
                Only({sanitizeForCSV(formatTwoDecimalsComma(
                          IF v = 0 THEN parseBRLNumber(getCell(row, lancIdx + col)).val
                          ELSE v)) :
                      v \in {parseBRLNumber(getCell(row, col)).val}})
        IN  /\ index' = [index EXCEPT !.map = c.map]
            /\ st' = [base EXCEPT
                        !.emitted = TRUE,
                        !.currentData = currentData[1],
                        !.currentDescDebito = IF p = << >> THEN @ ELSE p[1],
                        !.currentCodDebito = d.id,
                        !.rows = Append(@,
                            [Data |-> sanitizeForCSV(currentData[1]),
                             DescricaoCredito |-> sanitizeForCSV(descCredito),
                             ContaCredito |-> sanitizeForCSV(c.id),
                             DescricaoDebito |->
                                 sanitizeForCSV(IF p = << >> THEN st.currentDescDebito
                                                ELSE p[1]),
                             ContaDebito |-> sanitizeForCSV(d.id),
                             Historico |-> historico,
                             ValorPrincipal |-> Valor(12), Juros |-> Valor(13),
                             Desconto |-> Valor(14), DespBanco |-> Valor(15),
                             DespCartorio |-> Valor(16), VlLiqPago |-> Valor(17)])]

\* what a payer row leaves as the current payer: pickPortadorFromRow, then
\* the first cell right of the marker that cleans to a text
PortadorOfRow(row, pIdx) ==
    LET picked == pickPortadorFromRow(row, pIdx)
        right == SelectSeq([k \in 1..6 |-> pIdx + k],
                           LAMBDA j : /\ j < Len(row)
                                      /\ TrimSpace(row[j + 1]) # << >>
                                      /\ cleanPortadorText(TrimSpace(row[j + 1])) # << >>)
    IN  TrimSpace(IF picked # << >> THEN picked
                  ELSE IF right # << >>
                  THEN cleanPortadorText(TrimSpace(row[right[1] + 1]))
                  ELSE << >>)

\* one iteration of the loop over the rows, on the next row of the sheet
RecRow ==
    /\ variant = "recebimentos" /\ pc = "rows"
    /\ Len(input) < MaxRows
    /\ \E row \in RecRowPool :
       \E dIdx \in {findDataMarkerIndex(row)} :
       \E pIdx \in {findPortadorIndex(row)} :
       \E lanc \in {{i \in DOMAIN row : isLancamento(row[i])}} :
           LET base == [st EXCEPT !.emitted = FALSE]
           IN  /\ input' = Append(input, row)
               /\ IF dIdx # -1
                  THEN /\ \E tried \in {parseDateDayFirst(getCell(row, dIdx + 1))
                                            \o findDateInRow(row)
                                            \o parseDateDayFirst(getCell(row, 2))
                                            \o <<<< >>>>} :
                              st' = [base EXCEPT !.currentData = tried[1]]
                       /\ UNCHANGED index
                  ELSE IF pIdx # -1
                  THEN \E descDeb \in {PortadorOfRow(row, pIdx)} :
                       IF descDeb = << >>
                       THEN /\ st' = [base EXCEPT !.currentDescDebito = << >>,
                                                  !.currentCodDebito = Sentinel]
                            /\ UNCHANGED index
                       ELSE \E d \in CodigoOuSentinela(descDeb, index.order, index.map,
                                                       st.debitPrefixes) :
                                /\ st' = [base EXCEPT !.currentDescDebito = descDeb,
                                                      !.currentCodDebito = d.id]
                                /\ index' = [index EXCEPT !.map = d.map]
                  ELSE IF lanc # {}
                  THEN RecEmit(row, (CHOOSE i \in lanc : \A j \in lanc : i <= j) - 1, base)
                  ELSE st' = base /\ UNCHANGED index
    /\ UNCHANGED <<variant, contas, loaded, res, out, pc>>

\* the rows are exhausted: gerarCSVAtoliniRecebimentos writes the output
RecGerarCSV ==
    /\ variant = "recebimentos" /\ pc = "rows"
    /\ out' = gerarCSVAtoliniRecebimentos(st.rows)
    /\ pc' = "done"
    /\ UNCHANGED <<variant, contas, index, loaded, res, input, st>>

(***************************************************************************)
(* The behaviours of Variants B and C: one run of ProcessAtoliniPagamentos *)
(* or of ProcessAtoliniRecebimentos over a sheet of up to MaxRows rows.    *)
(***************************************************************************)
\* the parameters and local variables of a call at its entry.  emitted,
\* dateSet and narrative are history: the last row read produced output,
\* the last row read set the block date, the last narrative label row read
\* was a start label (narrativeWas: before the last row was read)
EntryLocals(v) ==
    IF v = "atolini"
    THEN [debitPrefixes |-> <<Runes("1")>>, creditPrefixes |-> <<Runes("2")>>,
          blockDate |-> << >>, inHistorico |-> FALSE,
          debCache |-> << >>, credCache |-> << >>, rows |-> << >>,
          emitted |-> FALSE, dateSet |-> FALSE,
          narrative |-> FALSE, narrativeWas |-> FALSE]
    ELSE [debitPrefixes |-> <<Runes("2")>>, creditPrefixes |-> <<Runes("1")>>,
          currentData |-> << >>, currentDescDebito |-> << >>,
          currentCodDebito |-> Sentinel, rows |-> << >>, emitted |-> FALSE]

InitAtolini ==
    /\ variant \in {"atolini", "recebimentos"}
    /\ contas = AtoliniContas
    /\ index = [map |-> << >>, order |-> << >>]
    /\ loaded = FALSE
    /\ res = NoRes
    /\ input = << >>
    /\ st = EntryLocals(variant)
    /\ out = << >>
    /\ pc = "start"

\* loadAtoliniData: the accounts are loaded by the variant's loader (the
\* rows of the sheet are read one by one by the loop)
loadAtoliniData ==
    /\ variant \in {"atolini", "recebimentos"} /\ pc = "start"
    /\ index' = IF variant = "atolini" THEN lerPlanoContasAtolini(contas)
                ELSE lerContasRecebimentos(contas)
    /\ loaded' = TRUE
    /\ pc' = "rows"
    /\ UNCHANGED <<variant, contas, res, input, st, out>>

NextAtolini ==
    \/ loadAtoliniData
    \/ PagRow
    \/ PagGerarCSV
    \/ RecRow
    \/ RecGerarCSV

SpecAtolini == InitAtolini /\ [][NextAtolini]_vars

(***************************************************************************)
(* Two calls on one Service value, interleaved.  The service struct has no *)
(* fields and the package keeps only compiled regular expressions, so all  *)
(* a call works on is its parameters and local variables: its frame.  The  *)
(* variables hold the frame of the call that is running; res holds the     *)
(* frame of the other call and which of the two is running.                *)
(***************************************************************************)
\* most rows the two calls read together
MaxInterleavedRows == 2

\* the frame left behind loses its block date or current date
FrameWithoutDate ==
    [variant |-> variant, contas |-> contas, index |-> index, loaded |-> loaded,
     input |-> input,
     st |-> IF variant = "atolini" THEN [st EXCEPT !.blockDate = << >>]
            ELSE [st EXCEPT !.currentData = << >>],
     out |-> out, pc |-> pc]

\* the frame of the running call
Frame ==
    [variant |-> variant, contas |-> contas, index |-> index, loaded |-> loaded,
     input |-> input, st |-> st, out |-> out, pc |-> pc]

InitConcurrent ==
    /\ variant \in {"atolini", "recebimentos"}
    /\ contas = AtoliniContas
    /\ index = [map |-> << >>, order |-> << >>]
    /\ loaded = FALSE
    /\ input = << >>
    /\ st = EntryLocals(variant)
    /\ out = << >>
    /\ pc = "start"
    /\ \E v \in {"atolini", "recebimentos"} :
           res = [running |-> 1,
                  parked |-> [variant |-> v, contas |-> AtoliniContas,
                              index |-> [map |-> << >>, order |-> << >>],
                              loaded |-> FALSE, input |-> << >>,
                              st |-> EntryLocals(v), out |-> << >>, pc |-> "start"]]

\* the scheduler takes the running call off the processor and resumes the
\* other one, which has steps left
Switch ==
    /\ res.parked.pc # "done"
    /\ res' = [running |-> 3 - res.running, parked |-> Frame]
    /\ variant' = res.parked.variant
    /\ contas' = res.parked.contas
    /\ index' = res.parked.index
    /\ loaded' = res.parked.loaded
    /\ input' = res.parked.input
    /\ st' = res.parked.st
    /\ out' = res.parked.out
    /\ pc' = res.parked.pc

NextConcurrent ==
    \/ NextAtolini /\ Len(input') + Len(res.parked.input) <= MaxInterleavedRows
    \/ Switch

SpecConcurrent == InitConcurrent /\ [][NextConcurrent]_vars

(***************************************************************************)
(* Claims on Variants B and C.                                             *)
(***************************************************************************)
\* C5: memoization is transparent in ProcessAtoliniPagamentos: the debit
\* and credit codes stamped on an emitted row through debCache and
\* credCache are codes that buscarContaAtolini, called directly for the
\* row's descriptions without a cache, can return.
C5_MemoizationTransparent ==
    (variant = "atolini" /\ input # << >> /\ st.emitted) =>
        LET row == input[Len(input)]
            stamped == st.rows[Len(st.rows)]
            descDeb == TrimSpace(getCell(row, 1))
            descCred == TrimSpace(pickBanco(row))
            Direct(desc, prefixes) ==
                {sanitizeForCSV(o.code) :
                    o \in buscarContaAtolini(desc, index.map, index.order, prefixes)}
        IN  /\ descDeb # << >> => stamped.Debito \in Direct(descDeb, st.debitPrefixes)
            /\ descCred # << >> => stamped.Credito \in Direct(descCred, st.creditPrefixes)

\* C8: in Variants B and C every emitted output row has a non-empty date.
C8_EmittedRowsHaveDate ==
    (variant \in {"atolini", "recebimentos"}) =>
        \A i \in DOMAIN st.rows : st.rows[i].Data # << >>

\* C9: in Variant B a row produces output only if a narrative-start label
\* row was read before it with no narrative-total label row since, and the
\* row has a parseable amount in column 8, 10, 11, 12 or 9; narrative-start
\* and narrative-total label rows produce no output.
C9_NarrativeGating ==
    (variant = "atolini" /\ input # << >>) =>
        LET row == input[Len(input)]
            amount == \E ci \in {8, 10, 11, 12, 9} :
                          /\ getCell(row, ci) # << >>
                          /\ ~parseBRLNumber(getCell(row, ci)).err
            label == rowHasPrefixN(row, 3, StartLabels \cup TotalLabels)
        IN  /\ st.emitted => st.narrativeWas /\ amount
            /\ label => ~st.emitted

\* C10: in Variant B a row with the "data de pag" label in one of its first
\* six cells updates the block date and produces no output row.
C10_DateLabelRows ==
    (variant = "atolini" /\ input # << >>) =>
        LET row == input[Len(input)]
            labelled == \E i \in 1..(IF Len(row) < 6 THEN Len(row) ELSE 6) :
                            Contains(ToLower(TrimSpace(row[i])), Runes("data de pag"))
        IN  labelled => st.dateSet /\ ~st.emitted

\* C11: in Variant C, once a "DATA:" marker row precedes a transaction row,
\* the date of the transaction's output row is the date set by the most
\* recent such marker row (the backward search over earlier rows is used
\* only when no marker row was read before the transaction row).
C11_DateOfLastMarker ==
    (variant = "recebimentos" /\ input # << >> /\ st.emitted) =>
        LET n == Len(input)
            markers == {i \in 1..(n - 1) : findDataMarkerIndex(input[i]) # -1}
            last == CHOOSE i \in markers : \A j \in markers : j <= i
            row == input[last]
            dIdx == findDataMarkerIndex(row)
            set == (parseDateDayFirst(getCell(row, dIdx + 1))
                        \o findDateInRow(row)
                        \o parseDateDayFirst(getCell(row, 2))
                        \o <<<< >>>>)[1]
        IN  markers # {} => st.rows[Len(st.rows)].Data = sanitizeForCSV(set)

(***************************************************************************)
(* Spreadsheet ingestion.  A workbook file is the container format its     *)
(* bytes have and its sheets in sheet order; a sheet is the rows its       *)
(* reader returns (GetRows), or a sheet whose rows cannot be read.         *)
(***************************************************************************)
\* most sheets of a workbook
MaxSheets == 2

SheetPool ==
    { [ok |-> TRUE, rows |-> << >>],
      [ok |-> TRUE, rows |-> << <<Runes("a")>> >>],
      [ok |-> TRUE, rows |-> << <<Runes("b"), Runes("c")>>, <<Runes("a")>> >>],
      [ok |-> TRUE, rows |-> << << >>, <<Runes("b"), Runes("c")>> >>],
      [ok |-> TRUE, rows |-> << <<Runes("a")>>, <<Runes("Empresa"), Runes("Valor")>>,
                                <<Runes("AB"), Runes("1,00")>>,
                                <<Runes("Total"), Runes("1,00")>> >>],
      [ok |-> FALSE, rows |-> << >>] }

\* .xlsx files have a sheet or more; every sheet of an .xls file can be read
Workbooks ==
    UNION {{[format |-> "xlsx", sheets |-> f] : f \in [1..n -> SheetPool]} : n \in 1..MaxSheets}
    \cup UNION {{[format |-> "xls", sheets |-> f] :
                    f \in [1..n -> {sh \in SheetPool : sh.ok}]} : n \in 0..MaxSheets}
    \cup {[format |-> "other", sheets |-> << >>]}

\* the records a csv.Reader reads from the buffer a csv.Writer wrote the
\* rows to: a row without cells, or with one empty cell, is written as an
\* empty line, and the reader skips empty lines
ReadBackCSV(rows) ==
    SelectSeq(rows, LAMBDA row : row # << >> /\ row # << << >> >>)

convertXLSXtoCSV(file) ==
    IF file.format # "xlsx" THEN [rows |-> << >>, err |-> TRUE]
    ELSE [rows |-> ReadBackCSV(Flatten([i \in DOMAIN file.sheets |->
                                           IF file.sheets[i].ok THEN file.sheets[i].rows
                                           ELSE << >>])),
          err |-> FALSE]

convertXLStoCSV(file) ==
    IF file.format = "xls"
    THEN [rows |-> ReadBackCSV(Flatten([i \in DOMAIN file.sheets |-> file.sheets[i].rows])),
          err |-> FALSE]
    ELSE IF file.format = "xlsx" THEN convertXLSXtoCSV(file)
    ELSE [rows |-> << >>, err |-> TRUE]

findHeaderRowReceitas(rows) ==
    LET maxRowsSearch == IF Len(rows) < 40 THEN Len(rows) ELSE 40
        found == {i \in 0..(maxRowsSearch - 1) :
                     \E c \in DOMAIN rows[i + 1] :
                         Contains(normalizeText(rows[i + 1][c]), Runes("EMPRESA"))}
    IN  IF found = {} THEN 0 ELSE CHOOSE i \in found : \A j \in found : i <= j

pickBestColumnReceitas(header, keywords) ==
    LET normCols == [i \in DOMAIN header |-> normalizeText(header[i])]
        Cols(kw) == {idx \in DOMAIN normCols : Contains(normCols[idx], normalizeText(kw))}
        hit == SelectSeq(keywords, LAMBDA kw : Cols(kw) # {})
    IN  IF hit = << >> THEN -1
        ELSE (CHOOSE idx \in Cols(hit[1]) : \A j \in Cols(hit[1]) : idx <= j) - 1

\* data, err # nil, and panic: header := rows[headerRowIndex] indexes a
\* slice that is too short ("index out of range", a run-time panic)
loadAndPrepareExcelReceitas(excelFile) ==
    LET failed == [data |-> << >>, err |-> TRUE, panic |-> FALSE]
        rows == excelFile.sheets[1].rows
        headerRowIndex == findHeaderRowReceitas(rows)
        header == rows[headerRowIndex + 1]
        idxEmpresa == pickBestColumnReceitas(header,
                          <<Runes("EMPRESA"), Runes("NOME"), Runes("RAZAO"),
                            Runes("FAVORECIDO")>>)
        idxRefmes == pickBestColumnReceitas(header,
                         <<Runes("REF"), Runes("REF. M") \o <<"U+00CA", "S">>,
                           Runes("REF MES"), Runes("REFERENCIA")>>)
        idxMensal == pickBestColumnReceitas(header,
                         <<Runes("MENSAL"), Runes("MENSALID"), Runes("MENSALIDADE"),
                           Runes("VALOR")>>)
        idxPis == pickBestColumnReceitas(header, <<Runes("PIS"), Runes("P.IS")>>)
        getValue(row, idx) == IF idx # -1 /\ idx < Len(row) THEN row[idx + 1] ELSE << >>
        kept == SelectSeq(SubSeq(rows, headerRowIndex + 2, Len(rows)),
                          LAMBDA row :
                              ~ \/ TrimSpace(getValue(row, idxEmpresa)) = << >>
                                \/ Contains(ToUpper(getValue(row, idxEmpresa)), Runes("TOTAL"))
                                \/ Contains(ToUpper(getValue(row, idxEmpresa)), Runes("TOTAIS")))
    IN  IF excelFile.format # "xlsx" \/ ~excelFile.sheets[1].ok THEN failed
        ELSE IF headerRowIndex >= Len(rows)
        THEN [data |-> << >>, err |-> FALSE, panic |-> TRUE]
        ELSE IF idxEmpresa = -1 THEN failed
        ELSE [data |-> [i \in DOMAIN kept |->
                           [Empresa |-> getValue(kept[i], idxEmpresa),
                            RefMes |-> getValue(kept[i], idxRefmes),
                            Mensalidade |-> getValue(kept[i], idxMensal),
                            Pis |-> getValue(kept[i], idxPis)]],
              err |-> FALSE, panic |-> FALSE]

loadGenericExcel(file) ==
    IF file.format = "xlsx"
    THEN [rows |-> file.sheets[1].rows, err |-> ~file.sheets[1].ok]
    ELSE IF file.format = "xls" /\ Len(file.sheets) > 0
    THEN [rows |-> file.sheets[1].rows, err |-> FALSE]
    ELSE [rows |-> << >>, err |-> TRUE]

(***************************************************************************)
(* The text and number functions called on their own: one call of          *)
(* parseBRLNumber or of normalizeText, or the writing of one output row,   *)
(* on an input string drawn from a bounded set, or the reading of one      *)
(* workbook.                                                               *)
(***************************************************************************)
MaxAmountLen == 5
MaxTextLen == 4

\* the strings of at most n runes of the set S
RECURSIVE StringsUpTo(_, _)
StringsUpTo(S, n) ==
    IF n = 0 THEN {<< >>}
    ELSE LET shorter == StringsUpTo(S, n - 1)
         IN  shorter \cup {Append(s, r) : s \in {p \in shorter : Len(p) = n - 1}, r \in S}

\* the strings a function is called on.  Amount cells: a body of digits,
\* separators and other text, bare, in parentheses, after a minus sign,
\* after a currency symbol, or in blanks.  Descriptions: letters of both
\* cases, a digit, blanks, punctuation, a precomposed accented letter and
\* a nonspacing mark.  Fields of output rows: a letter, blanks, control
\* characters and a rune that Windows-1252 does not have.
FunctionInputs(fn) ==
    LET Affixes == { << << >>, << >> >>, << <<"(">>, <<")">> >>, << <<"-">>, << >> >>,
                     << Runes("R$ "), << >> >>, << <<" ">>, <<" ">> >> }
    IN  IF fn = "parseBRLNumber"
        THEN {a[1] \o body \o a[2] :
                 a \in Affixes,
                 body \in StringsUpTo({"1", "5", ".", ",", "x"}, MaxAmountLen)}
        ELSE IF fn = "normalizeText"
        THEN StringsUpTo({"a", "Z", "7", " ", "-", "U+00E9", "U+0345"}, MaxTextLen)
        ELSE IF fn \in {"convertXLSXtoCSV", "convertXLStoCSV", "loadGenericExcel",
                        "loadAndPrepareExcelReceitas"}
        THEN Workbooks
        ELSE StringsUpTo({"a", " ", "\t", "\n", "U+0001", "U+00A0", "U+0301"}, MaxTextLen)

InitFunctions ==
    /\ variant \in {"parseBRLNumber", "normalizeText", "gerarCSV",
                    "convertXLSXtoCSV", "convertXLStoCSV", "loadGenericExcel",
                    "loadAndPrepareExcelReceitas"}
    /\ input \in FunctionInputs(variant)
    /\ contas = << >>
    /\ index = [map |-> << >>, order |-> << >>]
    /\ loaded = FALSE
    /\ res = NoRes
    /\ st = << >>
    /\ out = << >>
    /\ pc = "start"

\* valor, err := svc.parseBRLNumber(input)
CallParseBRLNumber ==
    /\ variant = "parseBRLNumber" /\ pc = "start"
    /\ out' = parseBRLNumber(input)
    /\ pc' = "done"
    /\ UNCHANGED <<variant, contas, index, loaded, res, input, st>>

\* key := svc.normalizeText(input)
CallNormalizeText ==
    /\ variant = "normalizeText" /\ pc = "start"
    /\ out' = normalizeText(input)
    /\ pc' = "done"
    /\ UNCHANGED <<variant, contas, index, loaded, res, input, st>>

\* the last statements of a conversion operation, on one output row whose
\* every field is the input string: the rows are handed to the operation's
\* writer and the operation returns (bytes, err).  ProcessSicrediFiles
\* returns nil with an error of its writer; the other three operations
\* return what their writer returns.
ProcessReturn ==
    /\ variant = "gerarCSV" /\ pc = "start"
    /\ \E proc \in {"ProcessSicrediFiles", "ProcessReceitasAcisaFiles",
                     "ProcessAtoliniPagamentos", "ProcessAtoliniRecebimentos"} :
       \E rows \in {<<[f \in {"Operacao", "Data", "Descricao", "DescricaoCredito",
                               "Conta", "ContaCredito", "Valor", "Historico",
                               "Mensalidade", "Pis", "Debito", "DescricaoConta",
                               "Credito", "DescricaoDebito", "ContaDebito",
                               "ValorPrincipal", "Juros", "Desconto", "DespBanco",
                               "DespCartorio", "VlLiqPago"} |-> input]>>} :
       \E w \in {IF proc = "ProcessSicrediFiles"
                  THEN Windows1252Written(gerarCSVSicredi(rows))
                  ELSE IF proc = "ProcessReceitasAcisaFiles"
                  THEN Windows1252Written(gerarCSVReceitasAcisa(rows))
                  ELSE IF proc = "ProcessAtoliniPagamentos"
                  THEN [records |-> gerarCSVAtoliniPagamentos(rows), err |-> FALSE]
                  ELSE gerarCSVAtoliniRecebimentos(rows)} :
           out' = [proc |-> proc,
                   bytes |-> IF proc = "ProcessSicrediFiles" /\ w.err THEN << >>
                             ELSE w.records,
                   written |-> w.records,
                   err |-> w.err]
    /\ pc' = "done"
    /\ UNCHANGED <<variant, contas, index, loaded, res, input, st>>

\* the workbook is read: by convertXLSXtoCSV or convertXLStoCSV and then by
\* the csv.Reader of carregarLancamentos in ProcessSicrediFiles, by
\* loadGenericExcel in ProcessAtoliniPagamentos and ProcessAtoliniRecebimentos,
\* by loadAndPrepareExcelReceitas in ProcessReceitasAcisaFiles
IngestWorkbook ==
    /\ variant \in {"convertXLSXtoCSV", "convertXLStoCSV", "loadGenericExcel",
                    "loadAndPrepareExcelReceitas"}
    /\ pc = "start"
    /\ out' = IF variant = "convertXLSXtoCSV" THEN convertXLSXtoCSV(input)
              ELSE IF variant = "convertXLStoCSV" THEN convertXLStoCSV(input)
              ELSE IF variant = "loadGenericExcel" THEN loadGenericExcel(input)
              ELSE loadAndPrepareExcelReceitas(input)
    /\ pc' = "done"
    /\ UNCHANGED <<variant, contas, index, loaded, res, input, st>>

NextFunctions ==
    \/ CallParseBRLNumber
    \/ CallNormalizeText
    \/ ProcessReturn
    \/ IngestWorkbook

SpecFunctions == InitFunctions /\ [][NextFunctions]_vars

(***************************************************************************)
(* Claims on parseBRLNumber (SpecFunctions).                               *)
(***************************************************************************)
\* C12: parseBRLNumber returns an error for the empty input and for every
\* input that holds no digit, and whenever it returns an error the value
\* it returns is 0.
C12_FailureSignalled ==
    (variant = "parseBRLNumber" /\ pc = "done") =>
        /\ (\A i \in DOMAIN input : ~IsDigit(input[i])) => out.err
        /\ out.err => out.val = 0

\* C13: for an input made of digits, '.' and ',' (bare, in parentheses or
\* after a minus sign) with at least one digit, parseBRLNumber succeeds and
\* takes the later of the rightmost '.' and the rightmost ',' as the decimal
\* point and strips every other '.' and ',': the value is the digits before
\* that point and the digits after it as decimals, rounded to cents, negated
\* for a parenthesized or leading-minus input.
C13_DecimalSeparatorPolicy ==
    (variant = "parseBRLNumber" /\ pc = "done") =>
        LET paren == Len(input) >= 2 /\ Head(input) = "(" /\ input[Len(input)] = ")"
            minus == input # << >> /\ Head(input) = "-"
            body == IF paren THEN SubSeq(input, 2, Len(input) - 1)
                    ELSE IF minus THEN Tail(input) ELSE input
            seps == {i \in DOMAIN body : body[i] \in {".", ","}}
            point == IF seps = {} THEN Len(body) + 1
                     ELSE CHOOSE i \in seps : \A j \in seps : j <= i
            whole == SelectSeq(SubSeq(body, 1, point - 1), IsDigit)
            decimals == SelectSeq(SubSeq(body, point + 1, Len(body)), IsDigit)
        IN  (/\ \A i \in DOMAIN body : IsDigit(body[i]) \/ body[i] \in {".", ","}
             /\ \E i \in DOMAIN body : IsDigit(body[i]))
                => /\ ~out.err
                   /\ out.val = mathRound(whole \o decimals, Len(decimals), paren \/ minus)

(***************************************************************************)
(* Claims on normalizeText (SpecFunctions).                                *)
(***************************************************************************)
\* C14: normalizeText is idempotent, normalizeText(normalizeText(x)) equals
\* normalizeText(x); its output holds only A-Z, 0-9 and single interior
\* spaces, with no space at either end, and the empty input gives the
\* empty output.
C14_NormalizeIdempotent ==
    (variant = "normalizeText" /\ pc = "done") =>
        /\ normalizeText(out) = out
        /\ \A i \in DOMAIN out : IsUpperAZ(out[i]) \/ IsDigit(out[i]) \/ out[i] = " "
        /\ \A i \in DOMAIN out :
               out[i] = " " => i > 1 /\ i < Len(out) /\ out[i + 1] # " "
        /\ input = << >> => out = << >>

\* a description with an accented letter, a lower-case letter and
\* punctuation between two words was normalized to two words
C14_Witness ==
    /\ variant = "normalizeText" /\ pc = "done"
    /\ input = <<"U+00E9", " ", "-", "a">>
    /\ out = <<"E", " ", "A">>

(***************************************************************************)
(* Claims on the writers (SpecFunctions).                                  *)
(***************************************************************************)
\* C15: every field of the header and of every record written by a gerarCSV
\* writer has passed through sanitizeForCSV (sanitizing it again changes
\* nothing): it holds no tab, newline, carriage return or other control
\* character below 32 and has no whitespace at either end.
C15_WrittenFieldsSanitized ==
    (variant = "gerarCSV" /\ pc = "done") =>
        \A i \in DOMAIN out.written : \A j \in DOMAIN out.written[i] :
            LET field == out.written[i][j]
            IN  /\ sanitizeForCSV(field) = field
                /\ Range(field) \cap {"\t", "\n", "\r", "\f", "U+0001", "U+000B"} = {}
                /\ field # << >> => ~IsSpace(field[1]) /\ ~IsSpace(field[Len(field)])

\* a row whose fields hold a tab, a control character and blanks at both
\* ends was written by gerarCSVAtoliniRecebimentos
C15_Witness ==
    /\ variant = "gerarCSV" /\ pc = "done"
    /\ out.proc = "ProcessAtoliniRecebimentos"
    /\ input = <<" ", "a", "\t", "U+0001">>
    /\ Len(out.written) = 2
    /\ out.written[2][6] = <<"a">>

\* C16: each of the four conversion operations returns an empty buffer
\* whenever it returns an error, a failure of the writer's encoder
\* included.
C16_AllOrNothing ==
    (variant = "gerarCSV" /\ pc = "done") => (out.err => out.bytes = << >>)

C21_BankInDebitScope ==
    (variant = "atolini" /\ input # << >> /\ st.emitted) =>
        LET row == input[Len(input)]
            stamped == st.rows[Len(st.rows)]
            descDeb == TrimSpace(getCell(row, 1))
            descCred == TrimSpace(pickBanco(row))
            Scoped(desc, prefixes) ==
                {sanitizeForCSV(o.code) :
                    o \in buscarContaAtolini(desc, index.map, index.order, prefixes)}
        IN  /\ descCred # << >> => stamped.Credito \in Scoped(descCred, st.debitPrefixes)
            /\ descDeb # << >> => stamped.Debito \in Scoped(descDeb, st.creditPrefixes)

\* C27: in every row emitted by Variants B and C (as in Variant A) every
\* date field is a valid calendar date written dd/mm/yyyy and every amount
\* field is written with a comma and exactly two decimal digits, whatever
\* form the date had in the input.
C27_OutputFormats ==
    (variant \in {"atolini", "recebimentos"}) =>
        LET IsAmount(s) ==
                /\ Len(s) >= 4
                /\ s[Len(s) - 2] = ","
                /\ AllDigits(SubSeq(s, Len(s) - 1, Len(s)))
                /\ AllDigits(SubSeq(s, IF s[1] = "-" THEN 2 ELSE 1, Len(s) - 3))
                /\ (s[1] = "-" => Len(s) >= 5)
            amounts == IF variant = "atolini" THEN {"Valor"}
                       ELSE {"ValorPrincipal", "Juros", "Desconto", "DespBanco",
                             "DespCartorio", "VlLiqPago"}
        IN  \A i \in DOMAIN st.rows :
                /\ TimeParseDMY(st.rows[i].Data) # << >>
                /\ \A f \in amounts : IsAmount(st.rows[i][f])

\* C28: Variant C payer invariant: after every row, either
\* currentDescDebito is empty and currentCodDebito is "999999", or
\* currentCodDebito is a code findContaCodigoByDescricao returns for
\* currentDescDebito under debitPrefixes; an emitted row carries the current
\* payer description and code; and the payer state changes only on a
\* payer-marker row or on the backward-search fallback of a transaction row
\* read while no payer was set.
C28_PayerInvariant ==
    [][(variant = "recebimentos" /\ Len(input') > Len(input)) =>
          LET row == input'[Len(input')]
              payerRow == findDataMarkerIndex(row) = -1 /\ findPortadorIndex(row) # -1
              fallback == st'.emitted /\ st.currentDescDebito = << >>
              resolutions ==
                  {o.code : o \in findContaCodigoByDescricao(st'.currentDescDebito,
                                  index'.order, index'.map, st'.debitPrefixes)}
          IN  /\ \/ st'.currentDescDebito = << >> /\ st'.currentCodDebito = Sentinel
                 \/ st'.currentCodDebito \in resolutions
              /\ st'.emitted =>
                     /\ st'.rows[Len(st'.rows)].DescricaoDebito
                            = sanitizeForCSV(st'.currentDescDebito)
                     /\ st'.rows[Len(st'.rows)].ContaDebito
                            = sanitizeForCSV(st'.currentCodDebito)
              /\ (st'.currentDescDebito # st.currentDescDebito
                     \/ st'.currentCodDebito # st.currentCodDebito)
                     => payerRow \/ fallback]_vars

\* a transaction row was written under a payer set by a payer-marker row:
\* the payer "7 - BANCO X" with the code of the account BANCO X
C28_Witness ==
    /\ variant = "recebimentos" /\ st.emitted
    /\ findPortadorIndex(input[1]) # -1
    /\ st.currentDescDebito = Runes("7 - BANCO X")
    /\ st.currentCodDebito = Runes("21")
    /\ st.rows[Len(st.rows)].ContaDebito = Runes("21")

\* C29: every account-code field of every row emitted by
\* ProcessAtoliniPagamentos and ProcessAtoliniRecebimentos is not empty: it
\* is the code of an entry of the account index or the sentinel "999999",
\* also when the row's payee or bank description is empty.
C29_CodeFieldsNotEmpty ==
    (variant \in {"atolini", "recebimentos"}) =>
        LET codes == {sanitizeForCSV(TrimSpace(e.Code)) : e \in IndexEntries} \cup {Sentinel}
        IN  \A i \in DOMAIN st.rows :
                IF variant = "atolini"
                THEN st.rows[i].Debito \in codes /\ st.rows[i].Credito \in codes
                ELSE st.rows[i].ContaDebito \in codes /\ st.rows[i].ContaCredito \in codes

(***************************************************************************)
(* Claims on the account index and its loaders.                            *)
(***************************************************************************)
\* C22: the account index is read-only after loading: whatever resolver
\* calls were made, with or without prefixes, the index still is the one
\* the loader built from the accounts file, the order of the entries under
\* each key included.
C22_IndexReadOnly ==
    loaded => index = LoaderOf(variant, contas)

\* C23: every accounts loader (loadContasSicredi, loadContasReceitasAcisa,
\* lerPlanoContasAtolini, lerContasRecebimentos) skips exactly the records
\* with fewer than 3 fields, with a description that is empty after
\* normalization, or with a code that is not numeric once the thousands
\* separators are removed; every other record adds one entry under its
\* normalized description.
C23_LoaderSkipsExactly ==
    loaded =>
        LET Numeric(code) ==
                ParseFloatOK(ReplaceRune(ReplaceRune(TrimSpace(code), ".", << >>), ",", Dot))
            adds == {i \in DOMAIN contas :
                        /\ Len(contas[i]) >= 3
                        /\ normalizeText(contas[i][3]) # << >>
                        /\ Numeric(contas[i][1])}
            KeyOf(i) == normalizeText(contas[i][3])
        IN  /\ DOMAIN index.map = {KeyOf(i) : i \in adds}
            /\ \A k \in DOMAIN index.map :
                   Len(index.map[k]) = Cardinality({i \in adds : KeyOf(i) = k})

\* C24: resolver step 1: in every resolver, for every index and prefix list,
\* a free text whose normalized form is empty (blank, or made only of
\* punctuation or symbols) resolves to 'none' with the code "999999", and
\* neither the exact stage found a key nor was the fuzzy matcher consulted.
C24_EmptyNormalizedIsNone ==
    (res.called /\ normalizeText(res.text) = << >>) =>
        /\ res.code = Sentinel
        /\ res.key = << >>
        /\ ~res.fuzzy

\* C26: in every resolver, with or without a prefix filter, the candidate
\* key sequence given to the fuzzy matcher is the list of the index's keys
\* in first-seen order, restricted to the keys with an entry that survives
\* the filter (so two resolutions of one text see the same sequence).
C26_CandidatesInFirstSeenOrder ==
    (res.called /\ res.fuzzy) =>
        res.cands = SelectSeq(index.order,
                              LAMBDA k : \/ res.prefixes = << >>
                                         \/ \E e \in Range(index.map[k]) :
                                                ClassifInScope(e, res.prefixes))

(***************************************************************************)
(* Claims on spreadsheet ingestion (SpecFunctions).                        *)
(***************************************************************************)
\* C25: spreadsheet ingestion flattens every sheet: for a workbook with the
\* sheets s1..sn, the row sequence each ingestion path (convertXLSXtoCSV,
\* convertXLStoCSV, loadGenericExcel) hands to the extractor is the rows of
\* s1, then of s2, ..., then of sn.
C25_EverySheetFlattened ==
    (variant \in {"convertXLSXtoCSV", "convertXLStoCSV", "loadGenericExcel"}
        /\ pc = "done" /\ ~out.err) =>
        LET RECURSIVE Concatenated(_)
            Concatenated(n) ==
                IF n = 0 THEN << >> ELSE Concatenated(n - 1) \o input.sheets[n].rows
        IN  out.rows = Concatenated(Len(input.sheets))

\* C30: loadAndPrepareExcelReceitas never indexes outside the rows of the
\* first sheet: for every first sheet, one with zero rows or without an
\* EMPRESA header cell included, it returns an error or a (possibly empty)
\* list of data rows and never reads rows[i] with i >= len(rows).
C30_NoIndexOutOfRange ==
    (variant = "loadAndPrepareExcelReceitas" /\ pc = "done") => ~out.panic

====
